---- MODULE Spec2Model ----
(***************************************************************************)
(* A model of the contract evaluation engine of RepoContract:              *)
(*   - src/src/contract.rs           the contract data model, merge_profile *)
(*   - src/src/branch_protection.rs  the branch-protection evaluator, the   *)
(*                                   status-check set difference and the    *)
(*                                   check_branch_protection driver         *)
(*   - src/src/required_files.rs     check_required_files                   *)
(*   - src/src/diff.rs, loader.rs    the diff entries, load_contract        *)
(*   - src/src/cli/runner.rs         the check and diff commands            *)
(* Rust values are modelled as follows: a struct is a record with the      *)
(* struct's field names, a Vec is a sequence, Option<T> is a sequence of   *)
(* length at most one (None == <<>>, Some(v) == <<v>>), a serde_json Value  *)
(* is a record tagged by its kind, and a String that is only compared or   *)
(* concatenated is a TLA+ string.  A String that is matched by a glob is a *)
(* sequence of one-character strings.                                      *)
(***************************************************************************)
EXTENDS Integers, Sequences, FiniteSets, TLC

VARIABLES
    pc,               \* position of the operation under study
    expected,         \* evaluate_branch_protection: the expected rules
    actual,           \* evaluate_branch_protection: the observed rules
    details,          \* evaluate_branch_protection: its return value
    expected_checks,  \* set difference: the expected status checks
    actual_checks,    \* set difference: the observed status checks
    missing,          \* missing_status_checks(expected_checks, actual_checks)
    extra,            \* extra_status_checks(expected_checks, actual_checks)
    config,           \* check_branch_protection: the BranchProtection of the contract
    branches,         \* check_branch_protection: the branch names the listing returned
    targets,          \* check_branch_protection: the branches the patterns matched
    reports,          \* check_branch_protection: the reports pushed so far
    protections,      \* check_branch_protection: what each fetch returned, one per report
    result,           \* check_branch_protection: its return value, None while running
    calls,            \* the provider calls made so far, each with its response status
    base,             \* merge_profile: self, the base contract
    profile,          \* merge_profile: the profile contract
    merged,           \* merge_profile: its return value, None before the call
    root,             \* check_required_files: the files of the repository tree, in walk order
    required_files,   \* check_required_files: the rules of the contract
    files,            \* check_required_files: list_files(root)
    files_lowercase,  \* check_required_files: the lowercased paths of files
    report,           \* check_required_files: the RequiredFilesReport built so far
    files_result,     \* check_required_files: its return value, None while running
    args,             \* the command line of a check or diff run
    cli_config,       \* the settings of .contract.toml
    env,              \* the environment of the run
    contract_file,    \* the contract parsed from the config file
    profile_file,     \* the contract parsed from the profile file, None if there is no such file
    loaded,           \* load_contract: its return value, None before the call
    diffs,            \* run_diff: the entries collected so far
    run_summary,      \* the Summary of the run, None while there is none
    run_result,       \* the return value of run_check or run_diff, None while running
    snapshot,         \* convert_protection_rules: the protection the provider returned
    converted,        \* convert_protection_rules: its return value, None before the call
    disk,             \* init_contract_files: the content of each path, None where no file is
    options,          \* init_contract_files: the InitOptions
    created,          \* init_contract_files: the paths written so far
    init_result       \* init_contract_files: its return value, None while running

evalVars == <<expected, actual, details>>
diffVars == <<expected_checks, actual_checks, missing, extra>>
checkVars == <<config, branches, targets, reports, protections, result, calls>>
mergeVars == <<base, profile, merged>>
filesVars == <<root, required_files, files, files_lowercase, report, files_result>>
runVars == <<args, cli_config, env, contract_file, profile_file, loaded, diffs,
             run_summary, run_result>>
convertVars == <<snapshot, converted>>
initVars == <<disk, options, created, init_result>>
vars == <<pc, evalVars, diffVars, checkVars, mergeVars, filesVars, runVars,
          convertVars, initVars>>

(***************************************************************************)
(* Bounds of the model.                                                    *)
(***************************************************************************)
MaxCount == 2        \* required_approving_review_count ranges over 0..MaxCount
MaxEvalChecks == 2   \* longest status-check list given to the evaluator
MaxChecks == 2       \* longest status-check list given to the set difference
MaxPatterns == 2     \* longest list of branch patterns in a contract
MaxBranches == 2     \* longest branch listing of the provider
MaxFiles == 2        \* longest required_files list of a contract

(***************************************************************************)
(* Option<T> and serde_json::Value.                                        *)
(***************************************************************************)
None == <<>>
Some(v) == <<v>>
is_some(o) == o # <<>>
is_none(o) == o = <<>>

ValueBool(b) == [kind |-> "Bool", bool |-> b]
ValueNumber(n) == [kind |-> "Number", num |-> n]
ValueArray(items) == [kind |-> "Array", items |-> items]

(***************************************************************************)
(* Severity and Severity::as_str.                                          *)
(***************************************************************************)
SeverityError == "error"
SeverityWarning == "warning"
SeverityInfo == "info"
Severity == {SeverityError, SeverityWarning, SeverityInfo}

(***************************************************************************)
(* Helpers on sequences: the iterator chains of the source.                *)
(***************************************************************************)
RECURSIVE SeqsUpTo(_, _)
\* all sequences over S of length at most n
SeqsUpTo(S, n) ==
    IF n = 0 THEN {<<>>}
    ELSE LET shorter == SeqsUpTo(S, n - 1)
         IN  shorter \cup {Append(s, x) : s \in {t \in shorter : Len(t) = n - 1}, x \in S}

Range(s) == {s[i] : i \in 1..Len(s)}

\* iter().map(|check| check.context.clone()).collect()
Contexts(checks) == [i \in 1..Len(checks) |-> checks[i].context]

\* the Display of a bool and of an integer inside format!
BoolStr(b) == IF b THEN "true" ELSE "false"
NumStr(n) == ToString(n)

RECURSIVE join(_, _)
\* [String]::join(sep)
join(strs, sep) ==
    IF strs = <<>> THEN ""
    ELSE IF Len(strs) = 1 THEN strs[1]
    ELSE strs[1] \o sep \o join(Tail(strs), sep)

(***************************************************************************)
(* contract.rs: the rule groups and their defaults.                        *)
(***************************************************************************)
StatusCheck(context, app_id) == [context |-> context, app_id |-> app_id]

DefaultRequiredPullRequestReviews ==
    [enabled |-> TRUE,
     required_approving_review_count |-> 1,
     dismiss_stale_reviews |-> TRUE,
     require_code_owner_reviews |-> FALSE,
     require_last_push_approval |-> FALSE]

DefaultRequiredStatusChecks ==
    [enabled |-> TRUE, strict |-> TRUE, checks |-> <<>>]

DefaultBranchProtectionRules ==
    [required_pull_request_reviews |-> DefaultRequiredPullRequestReviews,
     required_status_checks |-> DefaultRequiredStatusChecks,
     enforce_admins |-> FALSE,
     required_linear_history |-> FALSE,
     allow_force_pushes |-> FALSE,
     allow_deletions |-> FALSE,
     required_conversation_resolution |-> FALSE,
     required_signatures |-> FALSE]

(***************************************************************************)
(* branch_protection.rs: the status-check set difference.                  *)
(***************************************************************************)
\* a mutant: the app_id of the expected check is ignored
has_status_check_any_app(expected_check, actual_list) ==
    \E i \in 1..Len(actual_list) : actual_list[i].context = expected_check.context

has_status_check(expected_check, actual_list) ==
    \E i \in 1..Len(actual_list) :
        /\ actual_list[i].context = expected_check.context
        /\ IF is_some(expected_check.app_id)
           THEN actual_list[i].app_id = Some(expected_check.app_id[1])
           ELSE TRUE

\* a mutant: an expected check is looked up in the first observed check only
missing_status_checks_first_only(expected_list, actual_list) ==
    Contexts(SelectSeq(expected_list,
                       LAMBDA check :
                           ~has_status_check(check,
                                             IF actual_list = <<>> THEN <<>>
                                             ELSE <<Head(actual_list)>>)))

missing_status_checks(expected_list, actual_list) ==
    Contexts(SelectSeq(expected_list,
                       LAMBDA check : ~has_status_check(check, actual_list)))

\* a mutant: an actual check counts as expected only with the same app_id
extra_status_checks_by_app(expected_list, actual_list) ==
    Contexts(SelectSeq(actual_list,
                       LAMBDA check : check \notin Range(expected_list)))

extra_status_checks(expected_list, actual_list) ==
    LET expected_contexts == Range(Contexts(expected_list))
    IN  Contexts(SelectSeq(actual_list,
                           LAMBDA check : check.context \notin expected_contexts))

(***************************************************************************)
(* branch_protection.rs: evaluate_branch_protection.                       *)
(***************************************************************************)
BranchProtectionDetail(path, exp, act, miss, ext, passed, severity, message) ==
    [path |-> path, expected |-> exp, actual |-> act, missing |-> miss,
     extra |-> ext, passed |-> passed, severity |-> severity, message |-> message]

\* a mutant: the message is kept on a verdict that passed
push_detail_keeping_message(list, path, exp, act, passed, severity, message) ==
    Append(list, BranchProtectionDetail(path, exp, act, None, None, passed, severity,
                                        message))

push_detail(list, path, exp, act, passed, severity, message) ==
    Append(list, BranchProtectionDetail(path, exp, act, None, None, passed, severity,
                                        IF passed THEN "" ELSE message))

\* a mutant: a group that is not required but present is reported as an error too
enabled_severity_always_error(expected_enabled, actual_enabled) ==
    SeverityError

\* review_enabled_severity and status_enabled_severity
enabled_severity(expected_enabled, actual_enabled) ==
    IF expected_enabled /\ ~actual_enabled THEN SeverityError ELSE SeverityWarning

\* a mutant: the count is compared for equality
review_count_passed_exact(reviews_expected, reviews_actual) ==
    reviews_actual.required_approving_review_count
        = reviews_expected.required_approving_review_count

review_count_passed(reviews_expected, reviews_actual) ==
    reviews_actual.required_approving_review_count
        >= reviews_expected.required_approving_review_count

\* the lines of evaluate_branch_protection on required_pull_request_reviews
review_details(list, reviews_expected, reviews_actual) ==
    LET review_enabled_passed == reviews_expected.enabled = reviews_actual.enabled
        review_enabled_severity ==
            enabled_severity(reviews_expected.enabled, reviews_actual.enabled)
        d1 == push_detail(list, "required_pull_request_reviews.enabled",
                  ValueBool(reviews_expected.enabled), ValueBool(reviews_actual.enabled),
                  review_enabled_passed, review_enabled_severity,
                  "required_pull_request_reviews.enabled: expected "
                      \o BoolStr(reviews_expected.enabled)
                      \o ", got " \o BoolStr(reviews_actual.enabled))
        d2 == push_detail(d1,
                  "required_pull_request_reviews.required_approving_review_count",
                  ValueNumber(reviews_expected.required_approving_review_count),
                  ValueNumber(reviews_actual.required_approving_review_count),
                  review_count_passed(reviews_expected, reviews_actual),
                  SeverityError,
                  "required_approving_review_count: expected "
                      \o NumStr(reviews_expected.required_approving_review_count)
                      \o ", got "
                      \o NumStr(reviews_actual.required_approving_review_count))
        d3 == push_detail(d2, "required_pull_request_reviews.dismiss_stale_reviews",
                  ValueBool(reviews_expected.dismiss_stale_reviews),
                  ValueBool(reviews_actual.dismiss_stale_reviews),
                  reviews_expected.dismiss_stale_reviews
                      = reviews_actual.dismiss_stale_reviews,
                  SeverityWarning,
                  "dismiss_stale_reviews: expected "
                      \o BoolStr(reviews_expected.dismiss_stale_reviews)
                      \o ", got " \o BoolStr(reviews_actual.dismiss_stale_reviews))
        d4 == push_detail(d3, "required_pull_request_reviews.require_code_owner_reviews",
                  ValueBool(reviews_expected.require_code_owner_reviews),
                  ValueBool(reviews_actual.require_code_owner_reviews),
                  reviews_expected.require_code_owner_reviews
                      = reviews_actual.require_code_owner_reviews,
                  SeverityWarning,
                  "require_code_owner_reviews: expected "
                      \o BoolStr(reviews_expected.require_code_owner_reviews)
                      \o ", got " \o BoolStr(reviews_actual.require_code_owner_reviews))
        d5 == push_detail(d4, "required_pull_request_reviews.require_last_push_approval",
                  ValueBool(reviews_expected.require_last_push_approval),
                  ValueBool(reviews_actual.require_last_push_approval),
                  reviews_expected.require_last_push_approval
                      = reviews_actual.require_last_push_approval,
                  SeverityWarning,
                  "require_last_push_approval: expected "
                      \o BoolStr(reviews_expected.require_last_push_approval)
                      \o ", got " \o BoolStr(reviews_actual.require_last_push_approval))
    IN  IF reviews_expected.enabled THEN d5 ELSE d1

\* a mutant: extras alone no longer fail the verdict
checks_passed_ignoring_extra(missing_list, extra_list) ==
    missing_list = <<>>

\* let passed = missing.is_empty() && extra.is_empty()
checks_passed(missing_list, extra_list) ==
    missing_list = <<>> /\ extra_list = <<>>

\* let severity = if missing.is_empty() { Warning } else { Error }
checks_severity(missing_list) ==
    IF missing_list = <<>> THEN SeverityWarning ELSE SeverityError

\* let message = ... of the combined checks verdict
checks_message(passed, missing_list, extra_list) ==
    IF passed THEN ""
    ELSE IF missing_list # <<>>
    THEN IF extra_list = <<>>
         THEN "Missing required status check: " \o join(missing_list, ", ")
         ELSE "Missing required status check: " \o join(missing_list, ", ")
                  \o " (extra: " \o join(extra_list, ", ") \o ")"
    ELSE "Unexpected status checks: " \o join(extra_list, ", ")

\* a mutant: the combined verdict is also emitted when the observed list is non-empty
emits_checks_detail_either_side(expected_list, actual_list) ==
    expected_list # <<>> \/ actual_list # <<>>

\* if !expected_checks.is_empty()
emits_checks_detail(expected_list, actual_list) ==
    expected_list # <<>>

\* the combined required_status_checks.checks verdict
checks_detail(expected_list, actual_list) ==
    LET missing_list == missing_status_checks(expected_list, actual_list)
        extra_list == extra_status_checks(expected_list, actual_list)
        passed == checks_passed(missing_list, extra_list)
    IN  BranchProtectionDetail("required_status_checks.checks",
            ValueArray(Contexts(expected_list)), ValueArray(Contexts(actual_list)),
            Some(missing_list), Some(extra_list), passed,
            checks_severity(missing_list),
            checks_message(passed, missing_list, extra_list))

\* the lines of evaluate_branch_protection on required_status_checks
status_details(list, status_expected, status_actual) ==
    LET status_enabled_passed == status_expected.enabled = status_actual.enabled
        status_enabled_severity ==
            enabled_severity(status_expected.enabled, status_actual.enabled)
        d1 == push_detail(list, "required_status_checks.enabled",
                  ValueBool(status_expected.enabled), ValueBool(status_actual.enabled),
                  status_enabled_passed, status_enabled_severity,
                  "required_status_checks.enabled: expected "
                      \o BoolStr(status_expected.enabled)
                      \o ", got " \o BoolStr(status_actual.enabled))
        d2 == push_detail(d1, "required_status_checks.strict",
                  ValueBool(status_expected.strict), ValueBool(status_actual.strict),
                  status_expected.strict = status_actual.strict,
                  SeverityWarning,
                  "required_status_checks.strict: expected "
                      \o BoolStr(status_expected.strict)
                      \o ", got " \o BoolStr(status_actual.strict))
        d3 == IF emits_checks_detail(status_expected.checks, status_actual.checks)
              THEN Append(d2, checks_detail(status_expected.checks, status_actual.checks))
              ELSE d2
    IN  IF status_expected.enabled THEN d3 ELSE d1

\* a mutant: a top-level boolean that differs is reported as an error
push_bool_detail_error(list, path, expected_value, actual_value) ==
    push_detail(list, path, ValueBool(expected_value), ValueBool(actual_value),
                expected_value = actual_value, SeverityError,
                path \o ": expected " \o BoolStr(expected_value)
                     \o ", got " \o BoolStr(actual_value))

\* one of the six push_detail calls on a top-level boolean
push_bool_detail(list, path, expected_value, actual_value) ==
    push_detail(list, path, ValueBool(expected_value), ValueBool(actual_value),
                expected_value = actual_value, SeverityWarning,
                path \o ": expected " \o BoolStr(expected_value)
                     \o ", got " \o BoolStr(actual_value))

\* the lines of evaluate_branch_protection on the six top-level booleans
boolean_details(list, exp, act) ==
    LET d1 == push_bool_detail(list, "enforce_admins",
                               exp.enforce_admins, act.enforce_admins)
        d2 == push_bool_detail(d1, "required_linear_history",
                               exp.required_linear_history, act.required_linear_history)
        d3 == push_bool_detail(d2, "allow_force_pushes",
                               exp.allow_force_pushes, act.allow_force_pushes)
        d4 == push_bool_detail(d3, "allow_deletions",
                               exp.allow_deletions, act.allow_deletions)
        d5 == push_bool_detail(d4, "required_conversation_resolution",
                               exp.required_conversation_resolution,
                               act.required_conversation_resolution)
        d6 == push_bool_detail(d5, "required_signatures",
                               exp.required_signatures, act.required_signatures)
    IN  d6

evaluate_branch_protection(exp, act) ==
    LET d1 == review_details(<<>>, exp.required_pull_request_reviews,
                             act.required_pull_request_reviews)
        d2 == status_details(d1, exp.required_status_checks, act.required_status_checks)
    IN  boolean_details(d2, exp, act)

(***************************************************************************)
(* branch_protection.rs: summarize_branch_protection.                      *)
(***************************************************************************)
RECURSIVE count_failed(_, _)
\* the failed details of one list that carry the given severity
count_failed(list, severity) ==
    IF list = <<>> THEN 0
    ELSE (IF ~Head(list).passed /\ Head(list).severity = severity THEN 1 ELSE 0)
             + count_failed(Tail(list), severity)

RECURSIVE count_failed_reports(_, _)
count_failed_reports(report_list, severity) ==
    IF report_list = <<>> THEN 0
    ELSE count_failed(Head(report_list).details, severity)
             + count_failed_reports(Tail(report_list), severity)

summarize_branch_protection(report_list) ==
    [error |-> count_failed_reports(report_list, SeverityError),
     warning |-> count_failed_reports(report_list, SeverityWarning),
     info |-> count_failed_reports(report_list, SeverityInfo)]

\* fn detail_to_check
detail_to_check(detail) ==
    [path |-> detail.path, expected |-> detail.expected, actual |-> detail.actual,
     severity |-> detail.severity, message |-> detail.message]

\* details.iter().filter(|detail| !detail.passed).map(detail_to_check).collect()
failed_checks(list) ==
    LET failed == SelectSeq(list, LAMBDA detail : ~detail.passed)
    IN  [i \in 1..Len(failed) |-> detail_to_check(failed[i])]

BranchProtectionReport(target, list) ==
    [target |-> target, checks |-> failed_checks(list), details |-> list]

(***************************************************************************)
(* ContractResult<T>.                                                      *)
(***************************************************************************)
Ok(v) == [ok |-> TRUE, value |-> v, error |-> ""]
Err(e) == [ok |-> FALSE, value |-> <<>>, error |-> e]

GitHubApi == "GitHubApi"
InvalidConfig == "InvalidConfig"

(***************************************************************************)
(* The glob matcher behind match_branch_patterns: globset's parser and the *)
(* regular expression it builds, for patterns over literals, '?', '*',     *)
(* '**' and character classes without ranges or negation.  A pattern and a *)
(* candidate are sequences of one-character strings.                       *)
(***************************************************************************)
is_separator(c) == c = "/"

TokLiteral(c) == [t |-> "Literal", c |-> c, chars |-> {}]
TokAny == [t |-> "Any", c |-> "", chars |-> {}]
TokZeroOrMore == [t |-> "ZeroOrMore", c |-> "", chars |-> {}]
TokRecursivePrefix == [t |-> "RecursivePrefix", c |-> "", chars |-> {}]
TokRecursiveSuffix == [t |-> "RecursiveSuffix", c |-> "", chars |-> {}]
TokRecursiveZeroOrMore == [t |-> "RecursiveZeroOrMore", c |-> "", chars |-> {}]
TokClass(chars) == [t |-> "Class", c |-> "", chars |-> chars]

Front(s) == SubSeq(s, 1, Len(s) - 1)
Last(s) == s[Len(s)]
From(s, k) == SubSeq(s, k, Len(s))

\* the index of the ']' closing the class opened just before position i, or 0;
\* a ']' standing first in the class is a literal
ClassEnd(p, i) ==
    LET closing == {j \in (i + 2)..Len(p) : p[j] = "]"}
    IN  IF closing = {} THEN 0
        ELSE CHOOSE j \in closing : \A k \in closing : j <= k

RECURSIVE glob_parse(_, _, _)
\* Parser::parse from position i on, with the tokens pushed so far
glob_parse(p, i, tokens) ==
    IF i > Len(p) THEN Ok(tokens)
    ELSE IF p[i] = "?" THEN glob_parse(p, i + 1, Append(tokens, TokAny))
    ELSE IF p[i] = "[" THEN
        LET end == ClassEnd(p, i)
        IN  IF end = 0 THEN Err(InvalidConfig)
            ELSE glob_parse(p, end + 1,
                            Append(tokens, TokClass({p[j] : j \in (i + 1)..(end - 1)})))
    ELSE IF p[i] # "*" THEN glob_parse(p, i + 1, Append(tokens, TokLiteral(p[i])))
    \* parse_star
    ELSE IF i + 1 > Len(p) \/ p[i + 1] # "*"
    THEN glob_parse(p, i + 1, Append(tokens, TokZeroOrMore))
    ELSE LET j == i + 2
             two_stars == glob_parse(p, j, tokens \o <<TokZeroOrMore, TokZeroOrMore>>)
         IN  IF tokens = <<>>
             THEN IF j <= Len(p) /\ ~is_separator(p[j])
                  THEN two_stars
                  ELSE glob_parse(p, j + 1, <<TokRecursivePrefix>>)
             ELSE IF ~is_separator(p[i - 1]) THEN two_stars
             ELSE IF j <= Len(p) /\ ~is_separator(p[j]) THEN two_stars
             ELSE LET is_suffix == j > Len(p)
                      popped == Last(tokens)
                      pushed == IF popped.t \in {"RecursivePrefix", "RecursiveSuffix"}
                                THEN popped
                                ELSE IF is_suffix THEN TokRecursiveSuffix
                                ELSE TokRecursiveZeroOrMore
                  IN  glob_parse(p, j + 1, Append(Front(tokens), pushed))

RECURSIVE tokens_match(_, _, _)
\* the anchored regular expression of Glob::regex on the candidate s
tokens_match(tokens, s, literal_separator) ==
    IF tokens = <<>> THEN s = <<>>
    ELSE LET tok == Head(tokens)
             rest == Tail(tokens)
             one == s # <<>> /\ (literal_separator => ~is_separator(Head(s)))
         IN  CASE tok.t = "Literal" ->
                      s # <<>> /\ Head(s) = tok.c
                          /\ tokens_match(rest, Tail(s), literal_separator)
               [] tok.t = "Class" ->
                      s # <<>> /\ Head(s) \in tok.chars
                          /\ tokens_match(rest, Tail(s), literal_separator)
               [] tok.t = "Any" ->
                      one /\ tokens_match(rest, Tail(s), literal_separator)
               [] tok.t = "ZeroOrMore" ->
                      \/ tokens_match(rest, s, literal_separator)
                      \/ one /\ tokens_match(tokens, Tail(s), literal_separator)
               [] tok.t = "RecursivePrefix" ->
                      \/ tokens_match(rest, s, literal_separator)
                      \/ \E k \in 1..Len(s) :
                             is_separator(s[k])
                                 /\ tokens_match(rest, From(s, k + 1), literal_separator)
               [] tok.t = "RecursiveSuffix" ->
                      /\ s # <<>> /\ is_separator(Head(s))
                      /\ \E k \in 1..Len(s) :
                             tokens_match(rest, From(s, k + 1), literal_separator)
               [] tok.t = "RecursiveZeroOrMore" ->
                      /\ s # <<>> /\ is_separator(Head(s))
                      /\ \/ tokens_match(rest, Tail(s), literal_separator)
                         \/ \E k \in 2..Len(s) :
                                is_separator(s[k])
                                    /\ tokens_match(rest, From(s, k + 1), literal_separator)

\* a glob that is only '**' matches everything
glob_is_match(tokens, s, literal_separator) ==
    IF tokens = <<TokRecursivePrefix>> THEN TRUE
    ELSE tokens_match(tokens, s, literal_separator)

\* GlobBuilder::new(pattern).literal_separator(..).build()
glob_build(pattern) == glob_parse(pattern, 1, <<>>)

(***************************************************************************)
(* branch_protection.rs: match_branch_patterns.                            *)
(***************************************************************************)
\* glob_set.is_match(branch) for the set built from the patterns
glob_set_is_match(patterns, branch, literal_separator) ==
    \E i \in 1..Len(patterns) :
        glob_is_match(glob_build(patterns[i]).value, branch, literal_separator)

\* a mutant: the globs are built without literal_separator(true)
match_branch_patterns_crossing(patterns, branch_names) ==
    IF patterns = <<>> THEN Ok(<<>>)
    ELSE IF \E i \in 1..Len(patterns) : ~glob_build(patterns[i]).ok
    THEN Err(InvalidConfig)
    ELSE Ok(SelectSeq(branch_names,
                      LAMBDA branch : glob_set_is_match(patterns, branch, FALSE)))

RECURSIVE match_branch_patterns_by_pattern(_, _)
\* a mutant: the matches are collected pattern by pattern
match_branch_patterns_by_pattern(patterns, branch_names) ==
    IF patterns = <<>> THEN Ok(<<>>)
    ELSE IF \E i \in 1..Len(patterns) : ~glob_build(patterns[i]).ok
    THEN Err(InvalidConfig)
    ELSE Ok(SelectSeq(branch_names,
                      LAMBDA branch : glob_set_is_match(<<Head(patterns)>>, branch, TRUE))
            \o match_branch_patterns_by_pattern(Tail(patterns), branch_names).value)

match_branch_patterns(patterns, branch_names) ==
    IF patterns = <<>> THEN Ok(<<>>)
    ELSE IF \E i \in 1..Len(patterns) : ~glob_build(patterns[i]).ok
    THEN Err(InvalidConfig)
    ELSE Ok(SelectSeq(branch_names,
                      LAMBDA branch : glob_set_is_match(patterns, branch, TRUE)))

(***************************************************************************)
(* branch_protection.rs: the GitHub client.  A response of the provider is *)
(* its status ("ok", "not_found" for 404, "error" for any other status, a  *)
(* transport failure or an unparseable body) and, when ok, its parsed body.*)
(***************************************************************************)
Response(status, body) == [status |-> status, body |-> body]

get_optional_json(response) ==
    CASE response.status = "ok" -> Ok(Some(response.body))
      [] response.status = "not_found" -> Ok(None)
      [] OTHER -> Err(GitHubApi)

get_json(response) ==
    LET r == get_optional_json(response)
    IN  IF ~r.ok THEN r
        ELSE IF is_none(r.value) THEN Err(GitHubApi)
        ELSE Ok(r.value[1])

\* the body of the branch listing is the sequence of the branch names
list_branches(response) == get_json(response)

convert_pull_request_reviews(reviews) ==
    IF is_some(reviews)
    THEN [enabled |-> TRUE,
          required_approving_review_count |-> reviews[1].required_approving_review_count,
          dismiss_stale_reviews |-> reviews[1].dismiss_stale_reviews,
          require_code_owner_reviews |-> reviews[1].require_code_owner_reviews,
          require_last_push_approval |-> reviews[1].require_last_push_approval]
    ELSE [enabled |-> FALSE,
          required_approving_review_count |-> 0,
          dismiss_stale_reviews |-> FALSE,
          require_code_owner_reviews |-> FALSE,
          require_last_push_approval |-> FALSE]

\* a mutant: a check whose context is already among the contexts is dropped
convert_status_checks_dedup(checks) ==
    IF is_some(checks)
    THEN [enabled |-> TRUE,
          strict |-> checks[1].strict,
          checks |-> [i \in 1..Len(checks[1].contexts) |->
                         StatusCheck(checks[1].contexts[i], None)]
                     \o SelectSeq([i \in 1..Len(checks[1].checks) |->
                                      StatusCheck(checks[1].checks[i].context,
                                                  checks[1].checks[i].app_id)],
                                  LAMBDA c : c.context \notin Range(checks[1].contexts))]
    ELSE [enabled |-> FALSE, strict |-> FALSE, checks |-> <<>>]

convert_status_checks(checks) ==
    IF is_some(checks)
    THEN [enabled |-> TRUE,
          strict |-> checks[1].strict,
          checks |-> [i \in 1..Len(checks[1].contexts) |->
                         StatusCheck(checks[1].contexts[i], None)]
                     \o [i \in 1..Len(checks[1].checks) |->
                         StatusCheck(checks[1].checks[i].context,
                                     checks[1].checks[i].app_id)]]
    ELSE [enabled |-> FALSE, strict |-> FALSE, checks |-> <<>>]

\* protection.<field>.map(|value| value.enabled).unwrap_or(false)
enabled_or_false(group) == IF is_some(group) THEN group[1].enabled ELSE FALSE

convert_protection_rules(protection) ==
    [required_pull_request_reviews |->
         convert_pull_request_reviews(protection.required_pull_request_reviews),
     required_status_checks |-> convert_status_checks(protection.required_status_checks),
     enforce_admins |-> enabled_or_false(protection.enforce_admins),
     required_linear_history |-> enabled_or_false(protection.required_linear_history),
     allow_force_pushes |-> enabled_or_false(protection.allow_force_pushes),
     allow_deletions |-> enabled_or_false(protection.allow_deletions),
     required_conversation_resolution |->
         enabled_or_false(protection.required_conversation_resolution),
     required_signatures |-> enabled_or_false(protection.required_signatures)]

get_branch_protection(response) ==
    LET r == get_optional_json(response)
    IN  IF ~r.ok THEN r
        ELSE IF is_none(r.value) THEN Ok(None)
        ELSE Ok(Some(convert_protection_rules(r.value[1])))

\* a mutant: an unprotected branch is reported as a warning
missing_branch_protection_detail_warning ==
    BranchProtectionDetail("branch_protection", ValueBool(TRUE), ValueBool(FALSE),
                           None, None, FALSE, SeverityWarning,
                           "Branch protection is not enabled")

missing_branch_protection_detail ==
    BranchProtectionDetail("branch_protection", ValueBool(TRUE), ValueBool(FALSE),
                           None, None, FALSE, SeverityError,
                           "Branch protection is not enabled")

(***************************************************************************)
(* The inputs of the evaluator: rule sets in which one group ranges over   *)
(* all its values while the others keep their defaults, and a few rule     *)
(* sets in which every group differs from its default.                     *)
(***************************************************************************)
ReviewsInputs ==
    [enabled : BOOLEAN,
     required_approving_review_count : 0..MaxCount,
     dismiss_stale_reviews : BOOLEAN,
     require_code_owner_reviews : BOOLEAN,
     require_last_push_approval : BOOLEAN]

EvalCheckPool ==
    {StatusCheck(context, app_id) : context \in {"ci", "lint"}, app_id \in {None, Some(1)}}

StatusInputs ==
    [enabled : BOOLEAN, strict : BOOLEAN, checks : SeqsUpTo(EvalCheckPool, MaxEvalChecks)]

\* what convert_pull_request_reviews and convert_status_checks give for an absent group
DisabledRequiredPullRequestReviews ==
    [enabled |-> FALSE,
     required_approving_review_count |-> 0,
     dismiss_stale_reviews |-> FALSE,
     require_code_owner_reviews |-> FALSE,
     require_last_push_approval |-> FALSE]

DisabledRequiredStatusChecks ==
    [enabled |-> FALSE, strict |-> FALSE, checks |-> <<>>]

WithBooleans(rules, b) ==
    [rules EXCEPT !.enforce_admins = b[1], !.required_linear_history = b[2],
                  !.allow_force_pushes = b[3], !.allow_deletions = b[4],
                  !.required_conversation_resolution = b[5],
                  !.required_signatures = b[6]]

AllBooleans(b) == <<b, b, b, b, b, b>>

RulesInputs ==
    {[DefaultBranchProtectionRules EXCEPT !.required_pull_request_reviews = r] :
        r \in ReviewsInputs}
    \cup {[DefaultBranchProtectionRules EXCEPT !.required_status_checks = s] :
        s \in StatusInputs}
    \cup {WithBooleans(DefaultBranchProtectionRules, b) :
        b \in [1..6 -> BOOLEAN]}
    \cup {WithBooleans([DefaultBranchProtectionRules EXCEPT
                            !.required_pull_request_reviews = r,
                            !.required_status_checks = s], AllBooleans(b)) :
        r \in {DefaultRequiredPullRequestReviews, DisabledRequiredPullRequestReviews},
        s \in {DisabledRequiredStatusChecks,
               [enabled |-> FALSE, strict |-> TRUE,
                checks |-> <<StatusCheck("ci", None)>>],
               [enabled |-> TRUE, strict |-> FALSE,
                checks |-> <<StatusCheck("ci", None), StatusCheck("lint", Some(1))>>]},
        b \in BOOLEAN}

CheckPool ==
    {StatusCheck(context, app_id) :
        context \in {"ci", "lint"}, app_id \in {None, Some(1), Some(2)}}

CheckLists == SeqsUpTo(CheckPool, MaxChecks)

(***************************************************************************)
(* The evaluator as a state machine: one call of                           *)
(* evaluate_branch_protection on a pair of rule sets.                      *)
(***************************************************************************)
EvalIdle == expected = None /\ actual = None /\ details = <<>>
DiffIdle == expected_checks = <<>> /\ actual_checks = <<>> /\ missing = <<>> /\ extra = <<>>
MergeIdle == base = None /\ profile = None /\ merged = None
ConvertIdle == snapshot = None /\ converted = None
InitIdle == disk = None /\ options = None /\ created = <<>> /\ init_result = None
RunIdle ==
    /\ args = None /\ cli_config = None /\ env = None
    /\ contract_file = None /\ profile_file = None /\ loaded = None
    /\ diffs = <<>> /\ run_summary = None /\ run_result = None
FilesIdle ==
    /\ root = <<>> /\ required_files = <<>> /\ files = <<>> /\ files_lowercase = {}
    /\ report = None /\ files_result = None
CheckIdle ==
    /\ config = None /\ branches = <<>> /\ targets = <<>>
    /\ reports = <<>> /\ protections = <<>> /\ result = None /\ calls = <<>>

InitEval ==
    /\ pc = "eval_start"
    /\ expected \in RulesInputs
    /\ actual \in RulesInputs
    /\ details = <<>>
    /\ DiffIdle
    /\ CheckIdle
    /\ MergeIdle
    /\ FilesIdle
    /\ RunIdle
    /\ ConvertIdle
    /\ InitIdle

Evaluate ==
    /\ pc = "eval_start"
    /\ details' = evaluate_branch_protection(expected, actual)
    /\ pc' = "eval_done"
    /\ UNCHANGED <<expected, actual, diffVars, checkVars, mergeVars, filesVars, runVars, convertVars, initVars>>

NextEval == Evaluate

SpecEval == InitEval /\ [][NextEval]_vars

(***************************************************************************)
(* The status-check set difference as a state machine: the two calls of    *)
(* lines 479-480 on a pair of lists.                                       *)
(***************************************************************************)
InitChecks ==
    /\ pc = "diff_start"
    /\ expected_checks \in CheckLists
    /\ actual_checks \in CheckLists
    /\ missing = <<>>
    /\ extra = <<>>
    /\ EvalIdle
    /\ CheckIdle
    /\ MergeIdle
    /\ FilesIdle
    /\ RunIdle
    /\ ConvertIdle
    /\ InitIdle

MissingStatusChecks ==
    /\ pc = "diff_start"
    /\ missing' = missing_status_checks(expected_checks, actual_checks)
    /\ pc' = "diff_missing"
    /\ UNCHANGED <<expected_checks, actual_checks, extra, evalVars, checkVars, mergeVars, filesVars, runVars, convertVars, initVars>>

ExtraStatusChecks ==
    /\ pc = "diff_missing"
    /\ extra' = extra_status_checks(expected_checks, actual_checks)
    /\ pc' = "diff_done"
    /\ UNCHANGED <<expected_checks, actual_checks, missing, evalVars, checkVars, mergeVars, filesVars, runVars, convertVars, initVars>>

NextChecks == MissingStatusChecks \/ ExtraStatusChecks

SpecChecks == InitChecks /\ [][NextChecks]_vars

(***************************************************************************)
(* check_branch_protection as a state machine.  The provider is the        *)
(* environment: each call draws its response when it is made.              *)
(***************************************************************************)
Main == <<"m">>
Dev == <<"d">>
Release == <<"r", "/", "x">>
BranchNames == {Main, Dev, Release}

\* main, *, r/*, ? and the unclosed class [
PatternPool == {Main, <<"*">>, <<"r", "/", "*">>, <<"?">>, <<"[">>}

\* duplicate-free listings of at most MaxBranches branches
BranchListings ==
    {l \in SeqsUpTo(BranchNames, MaxBranches) :
        \A i, j \in 1..Len(l) : i # j => l[i] # l[j]}

GithubEnabled(b) == Some([enabled |-> b])

\* protection bodies of the provider: every group absent; a protected branch
\* with one review, strict checks [ci] and [lint, app 1]
GithubProtections ==
    {[required_pull_request_reviews |-> None, required_status_checks |-> None,
      enforce_admins |-> None, required_linear_history |-> None,
      allow_force_pushes |-> None, allow_deletions |-> None,
      required_conversation_resolution |-> None, required_signatures |-> None],
     [required_pull_request_reviews |->
          Some([required_approving_review_count |-> 1, dismiss_stale_reviews |-> TRUE,
                require_code_owner_reviews |-> FALSE,
                require_last_push_approval |-> FALSE]),
      required_status_checks |->
          Some([strict |-> TRUE, contexts |-> <<"ci">>,
                checks |-> <<[context |-> "lint", app_id |-> Some(1)]>>]),
      enforce_admins |-> GithubEnabled(TRUE), required_linear_history |-> None,
      allow_force_pushes |-> GithubEnabled(FALSE), allow_deletions |-> None,
      required_conversation_resolution |-> None, required_signatures |-> None]}

ConfigRules ==
    {DefaultBranchProtectionRules,
     [DefaultBranchProtectionRules EXCEPT
          !.required_status_checks.checks =
              <<StatusCheck("ci", None), StatusCheck("lint", None)>>,
          !.enforce_admins = TRUE]}

ListResponses ==
    {Response("ok", l) : l \in BranchListings}
        \cup {Response("not_found", <<>>), Response("error", <<>>)}

ProtectionResponses ==
    {Response("ok", g) : g \in GithubProtections}
        \cup {Response("not_found", <<>>), Response("error", <<>>)}

Call(op, branch, status) == [op |-> op, branch |-> branch, status |-> status]

InitCheck ==
    /\ pc = "check_start"
    /\ config \in [branches : SeqsUpTo(PatternPool, MaxPatterns), rules : ConfigRules]
    /\ branches = <<>>
    /\ targets = <<>>
    /\ reports = <<>>
    /\ protections = <<>>
    /\ result = None
    /\ calls = <<>>
    /\ EvalIdle
    /\ DiffIdle
    /\ MergeIdle
    /\ FilesIdle
    /\ RunIdle
    /\ ConvertIdle
    /\ InitIdle

\* lines 157-159: the listing, then the patterns
ListAndMatch ==
    /\ pc = "check_start"
    /\ \E response \in ListResponses :
           LET listed == list_branches(response)
               matched == match_branch_patterns(config.branches, listed.value)
           IN  /\ calls' = Append(calls, Call("list_branches", <<>>, response.status))
               /\ IF ~listed.ok
                  THEN /\ result' = Some(Err(listed.error))
                       /\ pc' = "check_done"
                       /\ UNCHANGED <<branches, targets>>
                  ELSE /\ branches' = listed.value
                       /\ IF ~matched.ok
                          THEN /\ result' = Some(Err(matched.error))
                               /\ pc' = "check_done"
                               /\ UNCHANGED targets
                          ELSE /\ targets' = matched.value
                               /\ pc' = "check_fetch"
                               /\ UNCHANGED result
    /\ UNCHANGED <<config, reports, protections, evalVars, diffVars, mergeVars, filesVars, runVars, convertVars, initVars>>

\* a mutant: a failed fetch is taken for an unprotected branch and the loop goes on
fetch_failed_as_unprotected(error) ==
    /\ reports' = Append(reports,
                         BranchProtectionReport(targets[Len(reports) + 1],
                                                <<missing_branch_protection_detail>>))
    /\ protections' = Append(protections, None)
    /\ UNCHANGED <<result, pc>>

\* what a failed protection fetch does to the call: the ? of line 161
fetch_failed(error) ==
    /\ result' = Some(Err(error))
    /\ reports' = <<>>
    /\ protections' = <<>>
    /\ pc' = "check_done"

\* a mutant: the protection fetched for the first branch is reused for the others
FetchAndEvaluateReusing ==
    /\ pc = "check_fetch"
    /\ Len(reports) < Len(targets)
    /\ LET target == targets[Len(reports) + 1]
       IN  \E response \in ProtectionResponses :
               LET protection == get_branch_protection(response)
                   used == IF protections = <<>> THEN protection.value
                           ELSE protections[1]
                   list == IF is_some(used)
                           THEN evaluate_branch_protection(config.rules, used[1])
                           ELSE <<missing_branch_protection_detail>>
               IN  /\ calls' = Append(calls, Call("get_branch_protection", target,
                                                  response.status))
                   /\ IF ~protection.ok
                      THEN fetch_failed(protection.error)
                      ELSE /\ reports' = Append(reports,
                                                BranchProtectionReport(target, list))
                           /\ protections' = Append(protections, protection.value)
                           /\ UNCHANGED <<result, pc>>
    /\ UNCHANGED <<config, branches, targets, evalVars, diffVars, mergeVars, filesVars, runVars, convertVars, initVars>>

\* lines 160-177: one iteration of the loop over the targets
FetchAndEvaluate ==
    /\ pc = "check_fetch"
    /\ Len(reports) < Len(targets)
    /\ LET target == targets[Len(reports) + 1]
       IN  \E response \in ProtectionResponses :
               LET protection == get_branch_protection(response)
                   list == IF is_some(protection.value)
                           THEN evaluate_branch_protection(config.rules,
                                                           protection.value[1])
                           ELSE <<missing_branch_protection_detail>>
               IN  /\ calls' = Append(calls, Call("get_branch_protection", target,
                                                  response.status))
                   /\ IF ~protection.ok
                      THEN fetch_failed(protection.error)
                      ELSE /\ reports' = Append(reports,
                                                BranchProtectionReport(target, list))
                           /\ protections' = Append(protections, protection.value)
                           /\ UNCHANGED <<result, pc>>
    /\ UNCHANGED <<config, branches, targets, evalVars, diffVars, mergeVars, filesVars, runVars, convertVars, initVars>>

\* line 178: Ok(reports)
ReturnReports ==
    /\ pc = "check_fetch"
    /\ Len(reports) = Len(targets)
    /\ result' = Some(Ok(reports))
    /\ pc' = "check_done"
    /\ UNCHANGED <<config, branches, targets, reports, protections, calls, evalVars, diffVars, mergeVars, filesVars, runVars, convertVars, initVars>>

Next == ListAndMatch \/ FetchAndEvaluate \/ ReturnReports

Init == InitCheck

Spec == Init /\ [][Next]_vars

(***************************************************************************)
(* contract.rs: Contract::merge_profile, and one call of it as a state     *)
(* machine.                                                                *)
(***************************************************************************)
\* a mutant: a rule of the profile that the base already has is not repeated
merge_profile_dedup(self, other) ==
    [self EXCEPT
        !.required_files =
            self.required_files
                \o SelectSeq(other.required_files,
                             LAMBDA rule : rule \notin Range(self.required_files)),
        !.branch_protection =
            IF is_some(other.branch_protection) THEN other.branch_protection ELSE @,
        !.metadata = IF is_some(other.metadata) THEN other.metadata ELSE @]

\* a mutant: a deep merge, the base's branch patterns survive under the profile's rules
merge_profile_deep(self, other) ==
    [self EXCEPT
        !.required_files = self.required_files \o other.required_files,
        !.branch_protection =
            IF is_some(other.branch_protection)
            THEN IF is_some(@)
                 THEN Some([branches |-> @[1].branches,
                            rules |-> other.branch_protection[1].rules])
                 ELSE other.branch_protection
            ELSE @,
        !.metadata = IF is_some(other.metadata) THEN other.metadata ELSE @]

\* a mutant: the profile's required files stand in for the base's
merge_profile_replace(self, other) ==
    [self EXCEPT
        !.required_files =
            IF other.required_files # <<>> THEN other.required_files ELSE @,
        !.branch_protection =
            IF is_some(other.branch_protection) THEN other.branch_protection ELSE @,
        !.metadata = IF is_some(other.metadata) THEN other.metadata ELSE @]

merge_profile(self, other) ==
    [self EXCEPT
        !.required_files = self.required_files \o other.required_files,
        !.branch_protection =
            IF is_some(other.branch_protection) THEN other.branch_protection ELSE @,
        !.metadata = IF is_some(other.metadata) THEN other.metadata ELSE @]

RequiredFile(path, pattern, alternatives, severity) ==
    [path |-> path, pattern |-> pattern, description |-> None,
     alternatives |-> alternatives, severity |-> severity, case_insensitive |-> FALSE]

\* LICENSE or LICENSE.md as an error; a documentation pattern as a warning
RequiredFilePool ==
    {RequiredFile(Some("LICENSE"), None, <<"LICENSE.md">>, SeverityError),
     RequiredFile(None, Some("^docs/"), <<>>, SeverityWarning)}

BranchProtectionPool ==
    {[branches |-> <<Main>>, rules |-> DefaultBranchProtectionRules],
     [branches |-> << <<"*">> >>,
      rules |-> [DefaultBranchProtectionRules EXCEPT !.enforce_admins = TRUE]]}

Contracts ==
    {[version |-> h[1], profile |-> h[2], language |-> h[3],
      branch_protection |-> bp, required_files |-> rf, metadata |-> meta] :
        h \in {<<"1", Some("strict"), None>>, <<"2", None, Some("rust")>>},
        bp \in {None} \cup {Some(b) : b \in BranchProtectionPool},
        rf \in SeqsUpTo(RequiredFilePool, MaxFiles),
        meta \in {None, Some("owner: a"), Some("owner: b")}}

InitMerge ==
    /\ pc = "merge_start"
    /\ base \in Contracts
    /\ profile \in Contracts
    /\ merged = None
    /\ EvalIdle
    /\ DiffIdle
    /\ CheckIdle
    /\ FilesIdle
    /\ RunIdle
    /\ ConvertIdle
    /\ InitIdle

MergeProfile ==
    /\ pc = "merge_start"
    /\ merged' = Some(merge_profile(base, profile))
    /\ pc' = "merge_done"
    /\ UNCHANGED <<base, profile, evalVars, diffVars, checkVars, filesVars, runVars, convertVars, initVars>>

NextMerge == MergeProfile

SpecMerge == InitMerge /\ [][NextMerge]_vars

(***************************************************************************)
(* Properties of the evaluator (checked under SpecEval).                   *)
(***************************************************************************)
(* src/src/required_files.rs: check_required_files.                        *)
(* A path is a sequence of one-character strings.  The repository tree is  *)
(* the sequence of its files, relative to the root, in walk order.         *)
(***************************************************************************)
UpperCase ==
    <<"A", "B", "C", "D", "E", "F", "G", "H", "I", "J", "K", "L", "M",
      "N", "O", "P", "Q", "R", "S", "T", "U", "V", "W", "X", "Y", "Z">>
LowerCase ==
    <<"a", "b", "c", "d", "e", "f", "g", "h", "i", "j", "k", "l", "m",
      "n", "o", "p", "q", "r", "s", "t", "u", "v", "w", "x", "y", "z">>

\* char::to_lowercase on ASCII
char_to_lowercase(c) ==
    IF \E i \in 1..Len(UpperCase) : UpperCase[i] = c
    THEN LowerCase[CHOOSE i \in 1..Len(UpperCase) : UpperCase[i] = c]
    ELSE c

\* str::to_lowercase
to_lowercase(path) == [i \in 1..Len(path) |-> char_to_lowercase(path[i])]

\* path.replace('\\', "/")
normalize_path(path) ==
    [i \in 1..Len(path) |-> IF path[i] = "\\" THEN "/" ELSE path[i]]

\* the first component of a relative path
first_component(path) ==
    LET seps == {i \in 1..Len(path) : is_separator(path[i])}
    IN  IF seps = {} THEN path
        ELSE SubSeq(path, 1, (CHOOSE i \in seps : \A j \in seps : i <= j) - 1)

GitDir == <<".", "g", "i", "t">>
TargetDir == <<"t", "a", "r", "g", "e", "t">>

path_is_ignored(path) == first_component(path) \in {GitDir, TargetDir}

\* the walk keeps the files that are not ignored
list_files(tree) == SelectSeq(tree, LAMBDA path : ~path_is_ignored(path))

looks_like_glob(path) == \E i \in 1..Len(path) : path[i] \in {"*", "?", "["}

\* GlobBuilder::case_insensitive: letters compare by their lowercase
glob_fold(path, case_insensitive) ==
    IF case_insensitive THEN to_lowercase(path) ELSE path

\* the glob is built without literal_separator, and a pattern that does not
\* build matches nothing
match_glob(pattern, file_list, case_insensitive) ==
    LET glob == glob_build(glob_fold(pattern, case_insensitive))
    IN  IF glob.ok
        THEN \E i \in 1..Len(file_list) :
                 glob_is_match(glob.value, glob_fold(file_list[i], case_insensitive), FALSE)
        ELSE FALSE

\* the number of '(' minus the number of ')' in p[1..i]
RECURSIVE paren_depth(_, _)
paren_depth(p, i) ==
    IF i = 0 THEN 0
    ELSE paren_depth(p, i - 1)
             + (IF p[i] = "(" THEN 1 ELSE IF p[i] = ")" THEN -1 ELSE 0)

\* RegexBuilder::build on patterns made of literals, '.', '^', '$' and plain
\* groups: an unbalanced parenthesis, an open class or a leading repetition
\* does not parse
regex_build(pattern, case_insensitive) ==
    IF \/ paren_depth(pattern, Len(pattern)) # 0
       \/ \E i \in 1..Len(pattern) : paren_depth(pattern, i) < 0
       \/ \E i \in 1..Len(pattern) : pattern[i] = "[" /\ ClassEnd(pattern, i) = 0
       \/ pattern # <<>> /\ pattern[1] \in {"*", "+", "?"}
    THEN Err(InvalidConfig)
    ELSE Ok([pattern |-> pattern, case_insensitive |-> case_insensitive])

RECURSIVE regex_match_at(_, _, _, _)
\* the expression from position i on matches the text at position k
regex_match_at(regex, i, text, k) ==
    IF i > Len(regex.pattern) THEN TRUE
    ELSE LET c == regex.pattern[i]
         IN  CASE c = "^" -> k = 1 /\ regex_match_at(regex, i + 1, text, k)
               [] c = "$" -> k = Len(text) + 1 /\ regex_match_at(regex, i + 1, text, k)
               [] c \in {"(", ")"} -> regex_match_at(regex, i + 1, text, k)
               [] c = "." -> k <= Len(text) /\ regex_match_at(regex, i + 1, text, k + 1)
               [] OTHER ->
                      /\ k <= Len(text)
                      /\ IF regex.case_insensitive
                         THEN char_to_lowercase(text[k]) = char_to_lowercase(c)
                         ELSE text[k] = c
                      /\ regex_match_at(regex, i + 1, text, k + 1)

\* Regex::is_match: an unanchored search
regex_is_match(regex, text) ==
    \E k \in 1..(Len(text) + 1) : regex_match_at(regex, 1, text, k)

match_regex(pattern, file_list, case_insensitive) ==
    LET regex == regex_build(pattern, case_insensitive)
    IN  IF ~regex.ok THEN Err(InvalidConfig)
        ELSE Ok(\E i \in 1..Len(file_list) : regex_is_match(regex.value, file_list[i]))

\* root.join(candidate).exists() for a relative candidate: the root itself, a
\* file of the tree or a directory of the tree, ignored or not
joined_exists(tree, candidate) ==
    \/ candidate = <<>>
    \/ \E i \in 1..Len(tree) :
           \/ tree[i] = candidate
           \/ /\ Len(tree[i]) > Len(candidate)
              /\ SubSeq(tree[i], 1, Len(candidate)) = candidate
              /\ is_separator(tree[i][Len(candidate) + 1])

path_exists(candidate, tree, file_list, lowercase_set, case_insensitive) ==
    LET normalized == normalize_path(candidate)
    IN  IF looks_like_glob(normalized)
        THEN match_glob(normalized, file_list, case_insensitive)
        ELSE IF case_insensitive
        THEN to_lowercase(normalized) \in lowercase_set
        ELSE joined_exists(tree, candidate)

RequiredFileCheck(path, exists, severity, description) ==
    [path |-> path, exists |-> exists, severity |-> severity, description |-> description]

\* a mutant: only the primary path is a candidate
candidates_primary_only(required) == <<required.path[1]>>

\* std::iter::once(path).chain(required.alternatives.iter())
candidates(required) == <<required.path[1]>> \o required.alternatives

\* a mutant: a rule that selects nothing is reported as a missing file
no_selector_missing(required) ==
    Ok(RequiredFileCheck(<<>>, FALSE, required.severity, required.description))

\* a rule with neither path nor pattern
no_selector(required) == Err(InvalidConfig)

evaluate_required_file(required, tree, file_list, lowercase_set) ==
    IF is_some(required.path)
    THEN LET list == candidates(required)
         IN  Ok(RequiredFileCheck(
                    required.path[1],
                    \E i \in 1..Len(list) :
                        path_exists(list[i], tree, file_list, lowercase_set,
                                    required.case_insensitive),
                    required.severity, required.description))
    ELSE IF is_some(required.pattern)
    THEN LET matched == match_regex(required.pattern[1], file_list,
                                    required.case_insensitive)
         IN  IF ~matched.ok THEN Err(matched.error)
             ELSE Ok(RequiredFileCheck(required.pattern[1], matched.value,
                                       required.severity, required.description))
    ELSE no_selector(required)

SummaryDefault == [error |-> 0, warning |-> 0, info |-> 0]

\* a mutant: every check is counted, present or not
count_check_always(summary, check) ==
    [summary EXCEPT ![check.severity] = @ + 1]

\* the match on check.severity under if !check.exists
count_check(summary, check) ==
    IF ~check.exists THEN [summary EXCEPT ![check.severity] = @ + 1] ELSE summary

RequiredFilesReport(checks, summary) == [checks |-> checks, summary |-> summary]

(***************************************************************************)
(* The trees and the rules check_required_files is run on.  The names are  *)
(* short stand-ins: L for LICENSE, L.m for LICENSE.md, R for README,       *)
(* s/l.r for src/lib.rs, .git/c for .git/config.                           *)
(***************************************************************************)
License == <<"L">>
LicenseMd == <<"L", ".", "m">>
Readme == <<"R">>
LibRs == <<"s", "/", "l", ".", "r">>
GitConfig == GitDir \o <<"/", "c">>

\* one walk order for every set of files
Trees ==
    {a \o b \o c \o d :
        a \in {<<>>, <<GitConfig>>}, b \in {<<>>, <<LicenseMd>>},
        c \in {<<>>, <<Readme>>}, d \in {<<>>, <<LibRs>>}}

FileRulePool ==
    {RequiredFile(Some(License), None, <<LicenseMd>>, SeverityError),
     [RequiredFile(Some(<<"r">>), None, <<>>, SeverityWarning)
          EXCEPT !.case_insensitive = TRUE],
     RequiredFile(None, Some(<<"^", "s", "/">>), <<>>, SeverityInfo),
     RequiredFile(Some(<<"*", ".", "r">>), None, <<>>, SeverityWarning),
     RequiredFile(Some(GitConfig), None, <<>>, SeverityInfo),
     RequiredFile(None, None, <<>>, SeverityError),
     RequiredFile(Some(<<"[">>), None, <<>>, SeverityError),
     RequiredFile(None, Some(<<"(">>), <<>>, SeverityWarning)}

FileRuleLists == SeqsUpTo(FileRulePool, MaxFiles)

InitFiles ==
    /\ pc = "files_start"
    /\ root \in Trees
    /\ required_files \in FileRuleLists
    /\ files = <<>>
    /\ files_lowercase = {}
    /\ report = None
    /\ files_result = None
    /\ EvalIdle
    /\ DiffIdle
    /\ CheckIdle
    /\ MergeIdle
    /\ RunIdle
    /\ ConvertIdle
    /\ InitIdle

\* let files = list_files(root)?; the walk drops the entries it cannot read,
\* so the listing itself never fails
ListFiles ==
    /\ pc = "files_start"
    /\ files' = list_files(root)
    /\ files_lowercase' = {to_lowercase(path) : path \in Range(list_files(root))}
    /\ report' = Some(RequiredFilesReport(<<>>, SummaryDefault))
    /\ pc' = "files_loop"
    /\ UNCHANGED <<files_result, root, required_files,
                   evalVars, diffVars, checkVars, mergeVars, runVars, convertVars, initVars>>

\* one turn of the loop over required_files
EvaluateRequiredFile ==
    /\ pc = "files_loop"
    /\ Len(report[1].checks) < Len(required_files)
    /\ LET required == required_files[Len(report[1].checks) + 1]
           check == evaluate_required_file(required, root, files, files_lowercase)
       IN  IF ~check.ok
           THEN /\ files_result' = Some(Err(check.error))
                /\ pc' = "files_done"
                /\ UNCHANGED report
           ELSE /\ report' = Some(RequiredFilesReport(
                                      Append(report[1].checks, check.value),
                                      count_check(report[1].summary, check.value)))
                /\ UNCHANGED <<files_result, pc>>
    /\ UNCHANGED <<root, required_files, files, files_lowercase,
                   evalVars, diffVars, checkVars, mergeVars, runVars, convertVars, initVars>>

\* Ok(report)
ReturnRequiredFilesReport ==
    /\ pc = "files_loop"
    /\ Len(report[1].checks) = Len(required_files)
    /\ files_result' = Some(Ok(report[1]))
    /\ pc' = "files_done"
    /\ UNCHANGED <<root, required_files, files, files_lowercase, report,
                   evalVars, diffVars, checkVars, mergeVars, runVars, convertVars, initVars>>

NextFiles == ListFiles \/ EvaluateRequiredFile \/ ReturnRequiredFilesReport

SpecFiles == InitFiles /\ [][NextFiles]_vars

(***************************************************************************)
(* src/src/diff.rs and branch_protection.rs: the diff entries.             *)
(***************************************************************************)
DiffEntry(rule, path, diff_type, severity, target, exp, act, miss, ext) ==
    [rule |-> rule, path |-> path, diff_type |-> diff_type, severity |-> severity,
     target |-> target, expected |-> exp, actual |-> act, missing |-> miss,
     extra |-> ext]

DiffReport(entries, summary) == [diffs |-> entries, summary |-> summary]

missing_file_entry(check) ==
    DiffEntry("required_files", check.path, "missing_file", Some(check.severity),
              None, None, None, None, None)

\* a mutant: every check gets an entry, present or not
diff_required_files_all(checks) ==
    DiffReport([i \in 1..Len(checks) |-> missing_file_entry(checks[i])],
               Some(SummaryDefault))

RECURSIVE diff_required_files_from(_, _, _)
\* the loop of diff_required_files over the checks still to visit
diff_required_files_from(checks, entries, summary) ==
    IF checks = <<>> THEN DiffReport(entries, Some(summary))
    ELSE LET check == Head(checks)
         IN  IF check.exists
             THEN diff_required_files_from(Tail(checks), entries, summary)
             ELSE diff_required_files_from(
                      Tail(checks), Append(entries, missing_file_entry(check)),
                      [summary EXCEPT ![check.severity] = @ + 1])

diff_required_files(checks) == diff_required_files_from(checks, <<>>, SummaryDefault)

\* a mutant: the lists of a status-check verdict are not looked at
diff_type_value_only(detail) == "value_mismatch"

diff_type_of(detail) ==
    IF is_some(detail.missing) \/ is_some(detail.extra)
    THEN "array_diff" ELSE "value_mismatch"

branch_protection_entry(target, detail) ==
    DiffEntry("branch_protection", detail.path, diff_type_of(detail), None,
              Some(target), Some(detail.expected), Some(detail.actual),
              detail.missing, detail.extra)

RECURSIVE diff_details(_, _, _)
\* the inner loop of diff_branch_protection
diff_details(target, list, entries) ==
    IF list = <<>> THEN entries
    ELSE diff_details(target, Tail(list),
                      IF Head(list).passed THEN entries
                      ELSE Append(entries, branch_protection_entry(target, Head(list))))

RECURSIVE diff_reports(_, _)
\* the outer loop of diff_branch_protection
diff_reports(report_list, entries) ==
    IF report_list = <<>> THEN entries
    ELSE diff_reports(Tail(report_list),
                      diff_details(Head(report_list).target,
                                   Head(report_list).details, entries))

diff_branch_protection(report_list) == diff_reports(report_list, <<>>)

(***************************************************************************)
(* src/src/loader.rs: load_contract, on the parsed content of the config   *)
(* file and of the profile file (None when the profile file is absent).    *)
(***************************************************************************)
ProfileNotFound == "ProfileNotFound"

LoadedContract(profile_path, contract) ==
    [profile_path |-> profile_path, contract |-> contract]

\* a mutant: a declared profile whose file is absent is skipped
load_contract_skip_missing(base_contract, profile_contract) ==
    IF is_some(base_contract.profile) /\ is_some(profile_contract)
    THEN Ok(LoadedContract(base_contract.profile,
                           merge_profile(base_contract, profile_contract[1])))
    ELSE Ok(LoadedContract(None, base_contract))

\* include_profile is true in both commands
load_contract(base_contract, profile_contract) ==
    IF is_some(base_contract.profile)
    THEN IF is_none(profile_contract)
         THEN Err(ProfileNotFound)
         ELSE Ok(LoadedContract(base_contract.profile,
                                merge_profile(base_contract, profile_contract[1])))
    ELSE Ok(LoadedContract(None, base_contract))

(***************************************************************************)
(* src/src/cli: run_check and run_diff.                                    *)
(***************************************************************************)
RuleRequiredFiles == "required_files"
RuleBranchProtection == "branch_protection"
GithubContext == "GithubContext"

parse_rules(rules, config_rules) ==
    LET list == IF is_some(rules) THEN rules[1]
                ELSE IF is_some(config_rules) THEN config_rules[1]
                ELSE <<RuleRequiredFiles, RuleBranchProtection>>
    IN  IF \E i \in 1..Len(list) : list[i] \notin {RuleRequiredFiles, RuleBranchProtection}
        THEN Err(InvalidConfig)
        ELSE Ok(list)

\* flag.or(config_strict).unwrap_or(false), forced by CONTRACT_STRICT
resolve_strict(flag, config_strict, env_true) ==
    IF env_true THEN TRUE
    ELSE IF is_some(flag) THEN flag[1]
    ELSE IF is_some(config_strict) THEN config_strict[1]
    ELSE FALSE

summarize_required_files(optional_report) ==
    IF is_some(optional_report) THEN optional_report[1].summary ELSE SummaryDefault

add_summary(summary, other) ==
    [error |-> summary.error + other.error,
     warning |-> summary.warning + other.warning,
     info |-> summary.info + other.info]

\* a mutant: a warning fails the run whether strict or not
has_error_on_warning(summary, strict) == summary.error > 0 \/ summary.warning > 0

has_error(summary, strict) == summary.error > 0 \/ (strict /\ summary.warning > 0)

\* the summary of run_check
check_summary(optional_report, branch_reports) ==
    add_summary(summarize_required_files(optional_report),
                summarize_branch_protection(branch_reports))

\* the value run_check returns once the summary is known
check_exit(summary, strict, quiet) ==
    IF quiet /\ summary.error = 0 /\ summary.warning = 0 THEN 0
    ELSE IF has_error(summary, strict) THEN 1 ELSE 0

\* the exit code cli::run makes of the result of a command
exit_code(command_result) == IF command_result.ok THEN command_result.value ELSE 2

Rules == parse_rules(args.rules, cli_config.check_rules).value
Selected(rule) == \E i \in 1..Len(Rules) : Rules[i] = rule

\* run_check evaluates the branches first, run_diff the files first
first_phase == IF args.command = "check" THEN "run_branch" ELSE "run_files"
after_branch == IF args.command = "check" THEN "run_files" ELSE "run_finish"
after_files == IF args.command = "check" THEN "run_finish" ELSE "run_branch"

\* the contracts of the config file and of the profile file
RunBranchProtection ==
    [branches |-> <<Main>>,
     rules |-> [DefaultBranchProtectionRules EXCEPT
                    !.required_status_checks.checks =
                        <<StatusCheck("ci", None), StatusCheck("lint", None)>>,
                    !.enforce_admins = TRUE]]

ProfileBranchProtection ==
    [branches |-> << <<"r", "/", "*">> >>, rules |-> DefaultBranchProtectionRules]

RunRuleLists ==
    {<<>>,
     <<RequiredFile(Some(License), None, <<LicenseMd>>, SeverityError)>>,
     <<[RequiredFile(Some(<<"r">>), None, <<>>, SeverityWarning)
            EXCEPT !.case_insensitive = TRUE]>>,
     <<RequiredFile(None, Some(<<"^", "s", "/">>), <<>>, SeverityInfo)>>}

ConfigFiles ==
    {[version |-> "1", profile |-> p, language |-> None, branch_protection |-> bp,
      required_files |-> rf, metadata |-> None] :
        p \in {None, Some("strict")},
        bp \in {None, Some(RunBranchProtection)},
        rf \in RunRuleLists}

ProfileFiles ==
    {[version |-> "1", profile |-> None, language |-> None,
      branch_protection |-> None,
      required_files |-> <<RequiredFile(Some(<<"*", ".", "r">>), None, <<>>,
                                        SeverityWarning)>>,
      metadata |-> None],
     [version |-> "1", profile |-> None, language |-> None,
      branch_protection |-> Some(ProfileBranchProtection),
      required_files |-> <<RequiredFile(None, None, <<>>, SeverityError)>>,
      metadata |-> None],
     [version |-> "1", profile |-> None, language |-> None,
      branch_protection |-> None,
      required_files |-> <<RequiredFile(Some(License), None, <<LicenseMd>>,
                                        SeverityError)>>,
      metadata |-> None]}

RunTrees == {<<>>, <<Readme>>, <<LicenseMd, Readme, LibRs>>}

CheckArgs(rules, strict, quiet, remote) ==
    [command |-> "check", rules |-> rules, strict |-> strict, quiet |-> quiet,
     remote |-> remote]

DiffArgs(rules, remote) == [command |-> "diff", rules |-> rules, remote |-> remote]

CliConfig(strict) == [strict |-> strict, check_rules |-> None]

Env(contract_strict, config_exists, github_context) ==
    [CONTRACT_STRICT |-> contract_strict, config_exists |-> config_exists,
     github_context |-> github_context]

RuleSelections ==
    {None, Some(<<RuleRequiredFiles>>), Some(<<RuleBranchProtection>>)}

\* --strict, the strict of .contract.toml, CONTRACT_STRICT
StrictSettings ==
    {<<None, None, FALSE>>, <<Some(TRUE), None, FALSE>>, <<Some(FALSE), Some(TRUE), FALSE>>,
     <<None, Some(TRUE), FALSE>>, <<None, None, TRUE>>}

\* the runs: every rule selection under every strict setting, and the runs
\* that stop before the contract is loaded or before the provider is asked
Invocations ==
    {<<CheckArgs(r, s[1], q, None), CliConfig(s[2]), Env(s[3], TRUE, TRUE)>> :
        r \in RuleSelections, s \in StrictSettings, q \in BOOLEAN}
    \cup {<<DiffArgs(r, None), CliConfig(None), Env(FALSE, TRUE, TRUE)>> :
              r \in RuleSelections}
    \cup {<<CheckArgs(None, None, FALSE, Some("o/r")), CliConfig(None),
            Env(FALSE, TRUE, TRUE)>>,
          <<DiffArgs(Some(<<RuleBranchProtection>>), Some("o/r")), CliConfig(None),
            Env(FALSE, TRUE, TRUE)>>,
          <<CheckArgs(Some(<<"x">>), None, FALSE, None), CliConfig(None),
            Env(FALSE, TRUE, TRUE)>>,
          <<DiffArgs(None, None), CliConfig(None), Env(FALSE, FALSE, TRUE)>>,
          <<CheckArgs(None, None, FALSE, None), CliConfig(None),
            Env(FALSE, TRUE, FALSE)>>}

InitRun ==
    /\ pc = "run_start"
    /\ \E invocation \in Invocations :
           /\ args = invocation[1]
           /\ cli_config = invocation[2]
           /\ env = invocation[3]
    /\ contract_file \in ConfigFiles
    /\ profile_file \in {None} \cup {Some(p) : p \in ProfileFiles}
    /\ is_none(contract_file.profile) => profile_file = None
    /\ loaded = None
    /\ diffs = <<>>
    /\ run_summary = None
    /\ run_result = None
    /\ root \in RunTrees
    /\ required_files = <<>> /\ files = <<>> /\ files_lowercase = {}
    /\ report = None /\ files_result = None
    /\ CheckIdle
    /\ EvalIdle
    /\ DiffIdle
    /\ MergeIdle
    /\ ConvertIdle
    /\ InitIdle

\* the command up to and including load_contract
LoadContract ==
    /\ pc = "run_start"
    /\ LET rules == parse_rules(args.rules, cli_config.check_rules)
           contract == load_contract(contract_file, profile_file)
       IN  IF ~rules.ok
           THEN /\ run_result' = Some(Err(rules.error))
                /\ pc' = "run_done"
                /\ UNCHANGED loaded
           ELSE IF is_some(args.remote) /\ Selected(RuleRequiredFiles)
           THEN /\ run_result' = Some(Ok(2))
                /\ pc' = "run_done"
                /\ UNCHANGED loaded
           ELSE IF ~env.config_exists
           THEN /\ run_result' = Some(Ok(2))
                /\ pc' = "run_done"
                /\ UNCHANGED loaded
           ELSE /\ loaded' = Some(contract)
                /\ IF ~contract.ok
                   THEN /\ run_result' = Some(Err(contract.error))
                        /\ pc' = "run_done"
                   ELSE /\ pc' = first_phase
                        /\ UNCHANGED run_result
    /\ UNCHANGED <<args, cli_config, env, contract_file, profile_file, diffs, run_summary,
                   evalVars, diffVars, checkVars, mergeVars, filesVars, convertVars, initVars>>

\* branch_protection_reports up to the call of check_branch_protection
BranchProtectionPhase ==
    /\ pc = "run_branch"
    /\ LET contract == loaded[1].value.contract
       IN  IF ~Selected(RuleBranchProtection) \/ is_none(contract.branch_protection)
           THEN /\ pc' = after_branch
                /\ UNCHANGED <<config, run_result>>
           ELSE IF ~env.github_context
           THEN /\ run_result' = Some(Err(GithubContext))
                /\ pc' = "run_done"
                /\ UNCHANGED config
           ELSE /\ config' = contract.branch_protection[1]
                /\ pc' = "check_start"
                /\ UNCHANGED run_result
    /\ UNCHANGED <<branches, targets, reports, protections, result, calls,
                   args, cli_config, env, contract_file, profile_file, loaded, diffs,
                   run_summary, evalVars, diffVars, mergeVars, filesVars, convertVars, initVars>>

\* check_branch_protection has returned
BranchProtectionDone ==
    /\ pc = "check_done"
    /\ IF ~result[1].ok
       THEN /\ run_result' = Some(Err(result[1].error))
            /\ pc' = "run_done"
            /\ UNCHANGED diffs
       ELSE /\ diffs' = IF args.command = "diff"
                        THEN diffs \o diff_branch_protection(result[1].value)
                        ELSE diffs
            /\ pc' = after_branch
            /\ UNCHANGED run_result
    /\ UNCHANGED <<args, cli_config, env, contract_file, profile_file, loaded, run_summary,
                   evalVars, diffVars, checkVars, mergeVars, filesVars, convertVars, initVars>>

\* the required_files rule up to the call of check_required_files
RequiredFilesPhase ==
    /\ pc = "run_files"
    /\ IF ~Selected(RuleRequiredFiles)
       THEN /\ pc' = after_files
            /\ UNCHANGED required_files
       ELSE /\ required_files' = loaded[1].value.contract.required_files
            /\ pc' = "files_start"
    /\ UNCHANGED <<root, files, files_lowercase, report, files_result,
                   evalVars, diffVars, checkVars, mergeVars, runVars, convertVars, initVars>>

\* check_required_files has returned
RequiredFilesDone ==
    /\ pc = "files_done"
    /\ IF ~files_result[1].ok
       THEN /\ run_result' = Some(Err(files_result[1].error))
            /\ pc' = "run_done"
            /\ UNCHANGED <<diffs, run_summary>>
       ELSE /\ IF args.command = "diff"
               THEN /\ diffs' = diffs \o diff_required_files(
                                            files_result[1].value.checks).diffs
                    /\ run_summary' = Some(files_result[1].value.summary)
               ELSE UNCHANGED <<diffs, run_summary>>
            /\ pc' = after_files
            /\ UNCHANGED run_result
    /\ UNCHANGED <<args, cli_config, env, contract_file, profile_file, loaded,
                   evalVars, diffVars, checkVars, mergeVars, filesVars, convertVars, initVars>>

\* the summary and the exit value
Finish ==
    /\ pc = "run_finish"
    /\ IF args.command = "check"
       THEN LET summary ==
                    check_summary(IF is_some(files_result)
                                  THEN Some(files_result[1].value) ELSE None,
                                  IF is_some(result) THEN result[1].value ELSE <<>>)
                strict == resolve_strict(args.strict, cli_config.strict,
                                         env.CONTRACT_STRICT)
            IN  /\ run_summary' = Some(summary)
                /\ run_result' = Some(Ok(check_exit(summary, strict, args.quiet)))
       ELSE /\ run_result' = Some(Ok(IF diffs # <<>> THEN 1 ELSE 0))
            /\ UNCHANGED run_summary
    /\ pc' = "run_done"
    /\ UNCHANGED <<args, cli_config, env, contract_file, profile_file, loaded, diffs,
                   evalVars, diffVars, checkVars, mergeVars, filesVars, convertVars, initVars>>

NextRun ==
    \/ LoadContract
    \/ BranchProtectionPhase
    \/ ListAndMatch
    \/ FetchAndEvaluate
    \/ ReturnReports
    \/ BranchProtectionDone
    \/ RequiredFilesPhase
    \/ ListFiles
    \/ EvaluateRequiredFile
    \/ ReturnRequiredFilesReport
    \/ RequiredFilesDone
    \/ Finish

SpecRun == InitRun /\ [][NextRun]_vars

(***************************************************************************)
(* branch_protection.rs: convert_protection_rules on the protections the   *)
(* provider can return.                                                    *)
(***************************************************************************)
GithubPullRequestReviews(count, dismiss, owner, push) ==
    [required_approving_review_count |-> count, dismiss_stale_reviews |-> dismiss,
     require_code_owner_reviews |-> owner, require_last_push_approval |-> push]

GithubStatusChecks(strict, contexts, checks) ==
    [strict |-> strict, contexts |-> contexts, checks |-> checks]

GithubStatusCheck(context, app_id) == [context |-> context, app_id |-> app_id]

GithubBranchProtection(reviews, status, b) ==
    [required_pull_request_reviews |-> reviews, required_status_checks |-> status,
     enforce_admins |-> b[1], required_linear_history |-> b[2],
     allow_force_pushes |-> b[3], allow_deletions |-> b[4],
     required_conversation_resolution |-> b[5], required_signatures |-> b[6]]

GithubEnabledInputs == {None, GithubEnabled(TRUE), GithubEnabled(FALSE)}

GithubReviewsInputs ==
    {None} \cup {Some(GithubPullRequestReviews(n, f[1], f[2], f[3])) :
                     n \in 0..MaxCount,
                     f \in {<<FALSE, FALSE, FALSE>>, <<TRUE, FALSE, TRUE>>,
                            <<FALSE, TRUE, FALSE>>}}

GithubStatusInputs ==
    {None} \cup {Some(GithubStatusChecks(strict, contexts, checks)) :
                     strict \in BOOLEAN,
                     contexts \in SeqsUpTo({"ci", "lint"}, MaxChecks),
                     checks \in SeqsUpTo({GithubStatusCheck("ci", None),
                                          GithubStatusCheck("lint", Some(1))},
                                         MaxChecks)}

\* the six top-level groups range over all their values with the two other
\* groups absent, and the two other groups range with the six absent or mixed
GithubProtectionInputs ==
    {GithubBranchProtection(None, None, b) :
         b \in [1..6 -> GithubEnabledInputs]}
    \cup {GithubBranchProtection(r, s, b) :
              r \in GithubReviewsInputs, s \in GithubStatusInputs,
              b \in {<<None, None, None, None, None, None>>,
                     <<GithubEnabled(TRUE), None, GithubEnabled(FALSE), None,
                       GithubEnabled(TRUE), GithubEnabled(FALSE)>>}}

InitConvert ==
    /\ pc = "convert_start"
    /\ snapshot \in GithubProtectionInputs
    /\ converted = None
    /\ EvalIdle
    /\ DiffIdle
    /\ CheckIdle
    /\ MergeIdle
    /\ FilesIdle
    /\ RunIdle
    /\ InitIdle

Convert ==
    /\ pc = "convert_start"
    /\ converted' = Some(convert_protection_rules(snapshot))
    /\ pc' = "convert_done"
    /\ UNCHANGED <<snapshot, evalVars, diffVars, checkVars, mergeVars, filesVars,
                   runVars, initVars>>

NextConvert == Convert

SpecConvert == InitConvert /\ [][NextConvert]_vars

(***************************************************************************)
(* src/src/init.rs: init_contract_files.  A path is the sequence of its    *)
(* components; the disk gives each path its content, None where no file    *)
(* is.  The outcome of the file system (io) is "ok", a failure of          *)
(* create_dir_all, or a failure of fs::write, which may leave a truncated  *)
(* file behind.                                                            *)
(***************************************************************************)
InitOptions(output_path, profile_name, from_repo, force) ==
    [output_path |-> output_path, profile |-> profile_name, from_repo |-> from_repo,
     force |-> force]

InitOutcome(paths) == [created |-> paths]

AlreadyExists(path) == [kind |-> "AlreadyExists", path |-> path]
Io == [kind |-> "Io", path |-> <<>>]

SchemaUrl == "https://pirakansa.github.io/Contract/schemas/v1.json"

RequiredFileTemplate(path, severity) == [path |-> path, severity |-> severity]

ContractTemplate(profile_name, templates) ==
    [schema |-> Some(SchemaUrl), version |-> "1.0", profile |-> profile_name,
     required_files |-> templates]

ProfileTemplate(language, templates) ==
    [schema |-> Some(SchemaUrl), version |-> "1.0", language |-> language,
     required_files |-> templates]

\* what a failed fs::write may leave behind
Truncated == [truncated |-> TRUE]

default_required_files ==
    <<RequiredFileTemplate("README.md", None),
      RequiredFileTemplate("LICENSE", None),
      RequiredFileTemplate(".gitignore", None),
      RequiredFileTemplate("AGENTS.md", Some(SeverityInfo))>>

RepoCandidates ==
    <<RequiredFileTemplate("README.md", None),
      RequiredFileTemplate("LICENSE", None),
      RequiredFileTemplate("CONTRIBUTING.md", Some(SeverityWarning)),
      RequiredFileTemplate("CHANGELOG.md", Some(SeverityWarning)),
      RequiredFileTemplate("SECURITY.md", Some(SeverityWarning)),
      RequiredFileTemplate(".gitignore", None),
      RequiredFileTemplate("AGENTS.md", Some(SeverityInfo))>>

\* the candidates that exist under the root, in the order of the candidates
required_files_from_repo(tree) ==
    SelectSeq(RepoCandidates, LAMBDA candidate : is_some(tree[<<candidate.path>>]))

profile_required_files(profile_name) ==
    IF profile_name = "rust"
    THEN <<RequiredFileTemplate("Cargo.toml", None),
           RequiredFileTemplate("src/main.rs", Some(SeverityWarning)),
           RequiredFileTemplate("rust-toolchain.toml", Some(SeverityWarning))>>
    ELSE <<>>

\* base_path.parent() joined with contract.{profile}.yml
profile_path_for(base_path, profile_name) ==
    Front(base_path) \o <<"contract." \o profile_name \o ".yml">>

\* a mutant: the file is written whether it exists or not
write_yaml_overwriting(tree, path, value, force, io) ==
    IF io = "create_dir_all" THEN [result |-> Err(Io), disk |-> tree]
    ELSE IF io = "write"
    THEN [result |-> Err(Io), disk |-> [tree EXCEPT ![path] = Some(Truncated)]]
    ELSE [result |-> Ok(<<>>), disk |-> [tree EXCEPT ![path] = Some(value)]]

\* the result of write_yaml and the disk it leaves
write_yaml(tree, path, value, force, io) ==
    IF is_some(tree[path]) /\ ~force
    THEN [result |-> Err(AlreadyExists(path)), disk |-> tree]
    ELSE IF io = "create_dir_all" THEN [result |-> Err(Io), disk |-> tree]
    ELSE IF io = "write"
    THEN [result |-> Err(Io), disk |-> [tree EXCEPT ![path] = Some(Truncated)]]
    ELSE [result |-> Ok(<<>>), disk |-> [tree EXCEPT ![path] = Some(value)]]

IoOutcomes == {"ok", "create_dir_all", "write"}

\* the inputs: an output path in the working directory, one in a directory
\* below it, and one that has the name profile_path_for gives the rust profile
OutputPaths == {<<"contract.yml">>, <<"sub", "contract.yml">>, <<"contract.rust.yml">>}

ProfileNames == {"rust", "go"}

ContractPaths ==
    OutputPaths \cup {profile_path_for(o, p) : o \in OutputPaths, p \in ProfileNames}

RepoPaths == {<<RepoCandidates[i].path>> : i \in 1..Len(RepoCandidates)}

\* a file that was on the disk before the call
OldContent == [version |-> "0.9"]

RepoFiles == {{}, {<<"README.md">>, <<"CHANGELOG.md">>}}

Disks ==
    {[path \in ContractPaths \cup RepoPaths |->
          IF path \in existing \cup repo THEN Some(OldContent) ELSE None] :
        existing \in SUBSET ContractPaths, repo \in RepoFiles}

InitInit ==
    /\ pc = "init_start"
    /\ disk \in Disks
    /\ options \in {InitOptions(o, p, r, f) :
                       o \in OutputPaths,
                       p \in {None} \cup {Some(n) : n \in ProfileNames},
                       r \in BOOLEAN, f \in BOOLEAN}
    /\ created = <<>>
    /\ init_result = None
    /\ EvalIdle
    /\ DiffIdle
    /\ MergeIdle
    /\ CheckIdle
    /\ FilesIdle
    /\ RunIdle
    /\ ConvertIdle

\* lines 48-63: the base template and its write
WriteContract ==
    /\ pc = "init_start"
    /\ \E io \in IoOutcomes :
           LET base_required_files == IF options.from_repo
                                      THEN required_files_from_repo(disk)
                                      ELSE default_required_files
               template == ContractTemplate(options.profile, base_required_files)
               written == write_yaml(disk, options.output_path, template,
                                     options.force, io)
           IN  /\ disk' = written.disk
               /\ IF ~written.result.ok
                  THEN /\ init_result' = Some(Err(written.result.error))
                       /\ pc' = "init_done"
                       /\ UNCHANGED created
                  ELSE /\ created' = Append(created, options.output_path)
                       /\ pc' = "init_profile"
                       /\ UNCHANGED init_result
    /\ UNCHANGED <<options, evalVars, diffVars, checkVars, mergeVars, filesVars,
                   runVars, convertVars>>

\* lines 65-75: the profile template and its write, when a profile was asked for
WriteProfile ==
    /\ pc = "init_profile"
    /\ IF is_none(options.profile)
       THEN /\ pc' = "init_return"
            /\ UNCHANGED <<disk, created, init_result>>
       ELSE \E io \in IoOutcomes :
                LET profile_name == options.profile[1]
                    profile_path == profile_path_for(options.output_path, profile_name)
                    profile_template ==
                        ProfileTemplate(profile_name,
                                        profile_required_files(profile_name))
                    written == write_yaml(disk, profile_path, profile_template,
                                          options.force, io)
                IN  /\ disk' = written.disk
                    /\ IF ~written.result.ok
                       THEN /\ init_result' = Some(Err(written.result.error))
                            /\ pc' = "init_done"
                            /\ UNCHANGED created
                       ELSE /\ created' = Append(created, profile_path)
                            /\ pc' = "init_return"
                            /\ UNCHANGED init_result
    /\ UNCHANGED <<options, evalVars, diffVars, checkVars, mergeVars, filesVars,
                   runVars, convertVars>>

\* line 77: Ok(InitOutcome { created })
ReturnOutcome ==
    /\ pc = "init_return"
    /\ init_result' = Some(Ok(InitOutcome(created)))
    /\ pc' = "init_done"
    /\ UNCHANGED <<disk, options, created, evalVars, diffVars, checkVars, mergeVars,
                   filesVars, runVars, convertVars>>

NextInit == WriteContract \/ WriteProfile \/ ReturnOutcome

SpecInit == InitInit /\ [][NextInit]_vars

(***************************************************************************)
\* the verdicts of the last evaluation that carry the given path
DetailsAt(path) == SelectSeq(details, LAMBDA d : d.path = path)

Paths(list) == [i \in 1..Len(list) |-> list[i].path]

ReviewCountPath == "required_pull_request_reviews.required_approving_review_count"

\* C1: whenever the expected review group is enabled, the verdict on
\* required_approving_review_count passes iff the observed count is at least
\* the expected one, and a failing verdict has severity error.
C1_ReviewCountAtLeast ==
    (pc = "eval_done" /\ expected.required_pull_request_reviews.enabled) =>
        /\ Len(DetailsAt(ReviewCountPath)) = 1
        /\ LET d == DetailsAt(ReviewCountPath)[1]
               e == expected.required_pull_request_reviews.required_approving_review_count
               a == actual.required_pull_request_reviews.required_approving_review_count
           IN  /\ d.passed <=> (a >= e)
               /\ ~d.passed => d.severity = SeverityError
               /\ d.expected = ValueNumber(e)
               /\ d.actual = ValueNumber(a)

\* C1 witness: a stricter repository (observed count above the expected one) passes
C1_Witness ==
    /\ pc = "eval_done"
    /\ expected.required_pull_request_reviews.enabled
    /\ actual.required_pull_request_reviews.required_approving_review_count
           > expected.required_pull_request_reviews.required_approving_review_count
    /\ DetailsAt(ReviewCountPath)[1].passed

EnabledVerdictOk(path, e, a) ==
    /\ Len(DetailsAt(path)) = 1
    /\ LET d == DetailsAt(path)[1]
       IN  /\ d.passed <=> (e = a)
           /\ ~d.passed => /\ (d.severity = SeverityError) <=> (e /\ ~a)
                           /\ (~e /\ a) => d.severity = SeverityWarning

\* C2: for both enabled flags the verdict passes iff expected = actual; a
\* failing verdict is an error exactly when expected is true and actual false,
\* and a warning when expected is false and actual true.
C2_EnabledVerdicts ==
    pc = "eval_done" =>
        /\ EnabledVerdictOk("required_pull_request_reviews.enabled",
                            expected.required_pull_request_reviews.enabled,
                            actual.required_pull_request_reviews.enabled)
        /\ EnabledVerdictOk("required_status_checks.enabled",
                            expected.required_status_checks.enabled,
                            actual.required_status_checks.enabled)

\* C2 witness: both directions of mismatch occur in one evaluation
C2_Witness ==
    /\ pc = "eval_done"
    /\ expected.required_pull_request_reviews.enabled
    /\ ~actual.required_pull_request_reviews.enabled
    /\ DetailsAt("required_pull_request_reviews.enabled")[1].severity = SeverityError
    /\ ~expected.required_status_checks.enabled
    /\ actual.required_status_checks.enabled
    /\ ~DetailsAt("required_status_checks.enabled")[1].passed
    /\ DetailsAt("required_status_checks.enabled")[1].severity = SeverityWarning

\* the sequence of verdict paths the specification prescribes for an expected rule set
PrescribedPaths(exp) ==
    <<"required_pull_request_reviews.enabled">>
    \o (IF exp.required_pull_request_reviews.enabled
        THEN <<"required_pull_request_reviews.required_approving_review_count",
               "required_pull_request_reviews.dismiss_stale_reviews",
               "required_pull_request_reviews.require_code_owner_reviews",
               "required_pull_request_reviews.require_last_push_approval">>
        ELSE <<>>)
    \o <<"required_status_checks.enabled">>
    \o (IF exp.required_status_checks.enabled
        THEN <<"required_status_checks.strict">> ELSE <<>>)
    \o (IF exp.required_status_checks.enabled /\ exp.required_status_checks.checks # <<>>
        THEN <<"required_status_checks.checks">> ELSE <<>>)
    \o <<"enforce_admins", "required_linear_history", "allow_force_pushes",
         "allow_deletions", "required_conversation_resolution", "required_signatures">>

\* C3: the verdict paths are exactly the prescribed sequence, which is a
\* function of the expected side alone.
C3_VerdictPaths ==
    pc = "eval_done" => Paths(details) = PrescribedPaths(expected)

\* C3 witness: both expected groups are disabled while the observed side has
\* both groups enabled and a non-empty check list; only eight verdicts appear
C3_Witness ==
    /\ pc = "eval_done"
    /\ ~expected.required_pull_request_reviews.enabled
    /\ ~expected.required_status_checks.enabled
    /\ actual.required_pull_request_reviews.enabled
    /\ actual.required_status_checks.enabled
    /\ actual.required_status_checks.checks # <<>>
    /\ Len(details) = 8

ChecksPath == "required_status_checks.checks"

ScenarioExpected ==
    [DefaultBranchProtectionRules EXCEPT
        !.required_status_checks.checks =
            <<StatusCheck("ci", None), StatusCheck("lint", None)>>]

ScenarioActual ==
    [DefaultBranchProtectionRules EXCEPT
        !.required_status_checks.checks = <<StatusCheck("ci", None)>>]

\* C4: an emitted checks verdict passes iff its missing and extra lists are
\* both empty; it is an error whenever something is missing and a warning
\* otherwise; expected [ci, lint] against observed [ci] gives missing [lint],
\* extra [], severity error and a summary of exactly one error.
C4_ChecksVerdict ==
    pc = "eval_done" =>
        /\ \A i \in 1..Len(details) :
               details[i].path = ChecksPath =>
                   LET d == details[i]
                   IN  /\ is_some(d.missing) /\ is_some(d.extra)
                       /\ d.passed <=> (d.missing[1] = <<>> /\ d.extra[1] = <<>>)
                       /\ d.missing[1] # <<>> => d.severity = SeverityError
                       /\ d.missing[1] = <<>> => d.severity = SeverityWarning
        /\ (expected = ScenarioExpected /\ actual = ScenarioActual) =>
               /\ Len(DetailsAt(ChecksPath)) = 1
               /\ DetailsAt(ChecksPath)[1].missing = Some(<<"lint">>)
               /\ DetailsAt(ChecksPath)[1].extra = Some(<<>>)
               /\ DetailsAt(ChecksPath)[1].severity = SeverityError
               /\ summarize_branch_protection(
                      <<BranchProtectionReport("main", details)>>)
                      = [error |-> 1, warning |-> 0, info |-> 0]

\* C4 witness: a checks verdict that fails on extras alone, as a warning
C4_Witness ==
    /\ pc = "eval_done"
    /\ Len(DetailsAt(ChecksPath)) = 1
    /\ DetailsAt(ChecksPath)[1].missing = Some(<<>>)
    /\ DetailsAt(ChecksPath)[1].extra # Some(<<>>)
    /\ ~DetailsAt(ChecksPath)[1].passed
    /\ DetailsAt(ChecksPath)[1].severity = SeverityWarning

(***************************************************************************)
(* Properties of the set difference (checked under SpecChecks).            *)
(***************************************************************************)
\* an observed check satisfies an expected one
Satisfies(a, e) == a.context = e.context /\ (e.app_id = None \/ a.app_id = e.app_id)

Unsatisfied(e) == \A j \in 1..Len(actual_checks) : ~Satisfies(actual_checks[j], e)

\* C5: missing is the subsequence of the expected contexts, in order and with
\* duplicates, of the expected checks no observed check satisfies.
C5_MissingSubsequence ==
    pc \in {"diff_missing", "diff_done"} =>
        /\ missing = Contexts(SelectSeq(expected_checks, Unsatisfied))
        /\ \A i \in 1..Len(expected_checks) :
               LET e == expected_checks[i]
               IN  /\ (/\ is_some(e.app_id)
                       /\ \A j \in 1..Len(actual_checks) :
                              actual_checks[j].context = e.context =>
                                  actual_checks[j].app_id # e.app_id)
                          => e.context \in Range(missing)
                   /\ (/\ \A k \in 1..Len(expected_checks) :
                              expected_checks[k].context = e.context =>
                                  is_none(expected_checks[k].app_id)
                       /\ \E j \in 1..Len(actual_checks) :
                              actual_checks[j].context = e.context)
                          => e.context \notin Range(missing)

\* C5 witness: an expected check with an app_id is missing although the
\* observed list has its context, once without app_id and once with another
C5_Witness ==
    /\ pc = "diff_done"
    /\ expected_checks = <<StatusCheck("ci", Some(1)), StatusCheck("lint", None)>>
    /\ actual_checks = <<StatusCheck("ci", None), StatusCheck("ci", Some(2))>>
    /\ missing = <<"ci", "lint">>

\* C6: extra is the subsequence of the observed contexts, in order and with
\* duplicates, of the observed checks whose context no expected check has; an
\* observed check with an expected context is never extra, whatever its app_id.
C6_ExtraSubsequence ==
    pc = "diff_done" =>
        /\ extra = Contexts(SelectSeq(actual_checks,
                      LAMBDA a : \A i \in 1..Len(expected_checks) :
                                     expected_checks[i].context # a.context))
        /\ \A j \in 1..Len(actual_checks) :
               (\E i \in 1..Len(expected_checks) :
                    expected_checks[i].context = actual_checks[j].context)
                   => actual_checks[j].context \notin Range(extra)

\* C6 witness: the observed check has the expected context and another app_id;
\* it is reported through missing and not as extra, while a duplicate stays
C6_Witness ==
    /\ pc = "diff_done"
    /\ expected_checks = <<StatusCheck("ci", Some(1))>>
    /\ actual_checks = <<StatusCheck("ci", Some(2)), StatusCheck("lint", None)>>
    /\ missing = <<"ci">>
    /\ extra = <<"lint">>

(***************************************************************************)
(* Properties of check_branch_protection (checked under Spec).             *)
(***************************************************************************)
\* the call has not failed: report k was built from provider call k + 1
Running == pc = "check_fetch" \/ (pc = "check_done" /\ result[1].ok)

SyntheticVerdict ==
    [path |-> "branch_protection", expected |-> ValueBool(TRUE),
     actual |-> ValueBool(FALSE), missing |-> None, extra |-> None, passed |-> FALSE,
     severity |-> "error", message |-> "Branch protection is not enabled"]

Summary(report_list) == summarize_branch_protection(report_list)

\* C7: a branch the provider reports as unprotected gets exactly the one
\* synthetic error verdict, which adds one to the error counter and nothing
\* else, and the call goes on with the remaining branches.
C7_MissingProtectionVerdict ==
    /\ Running =>
           \A k \in 1..Len(reports) :
               calls[k + 1].status = "not_found" =>
                   /\ reports[k].target = targets[k]
                   /\ reports[k].details = <<SyntheticVerdict>>
                   /\ Len(reports[k].checks) = 1
                   /\ Summary(SubSeq(reports, 1, k)).error
                          = Summary(SubSeq(reports, 1, k - 1)).error + 1
                   /\ Summary(SubSeq(reports, 1, k)).warning
                          = Summary(SubSeq(reports, 1, k - 1)).warning
                   /\ Summary(SubSeq(reports, 1, k)).info
                          = Summary(SubSeq(reports, 1, k - 1)).info
    /\ (calls # <<>> /\ Last(calls) = Call("get_branch_protection",
                                           Last(calls).branch, "not_found"))
           => /\ pc = "check_fetch" \/ (pc = "check_done" /\ result[1].ok)
              /\ Len(reports) = Len(calls) - 1
    /\ (pc = "check_done" /\ result[1].ok) => Len(result[1].value) = Len(targets)

\* C7 witness: the first branch is unprotected, the second one is fetched and
\* evaluated field by field, and the call succeeds with both reports
C7_Witness ==
    /\ pc = "check_done"
    /\ result[1].ok
    /\ Len(result[1].value) = 2
    /\ calls[2].status = "not_found"
    /\ calls[3].status = "ok"
    /\ result[1].value[1].details = <<SyntheticVerdict>>
    /\ Len(result[1].value[2].details) > 1

ProviderFailed(call) ==
    call.status = "error" \/ (call.op = "list_branches" /\ call.status = "not_found")

\* C8: a failed listing (404 included) or a failed fetch ends the whole call
\* with an error that carries no report; no call follows the failed one and no
\* call is made twice.
C8_ProviderFailureIsFatal ==
    /\ \A i \in 1..Len(calls) :
           ProviderFailed(calls[i]) =>
               /\ i = Len(calls)
               /\ pc = "check_done"
               /\ result = Some(Err(GitHubApi))
               /\ result[1].value = <<>>
    /\ \A i, j \in 1..Len(calls) :
           (calls[i].op = calls[j].op /\ calls[i].branch = calls[j].branch) => i = j

\* C8 witness: the first branch was fetched and evaluated, the fetch of the
\* second one failed, and the call returned the error alone
C8_Witness ==
    /\ pc = "check_done"
    /\ Len(calls) = 3
    /\ calls[2].status = "ok"
    /\ calls[3].status = "error"
    /\ ~result[1].ok

RECURSIVE WildcardMatch(_, _)
\* a pattern of literals, '?' and single '*' against a name: the wildcards
\* stand for characters other than '/'
WildcardMatch(p, name) ==
    IF p = <<>> THEN name = <<>>
    ELSE IF Head(p) = "*"
    THEN \/ WildcardMatch(Tail(p), name)
         \/ name # <<>> /\ Head(name) # "/" /\ WildcardMatch(p, Tail(name))
    ELSE /\ name # <<>>
         /\ IF Head(p) = "?" THEN Head(name) # "/" ELSE Head(name) = Head(p)
         /\ WildcardMatch(Tail(p), Tail(name))

MatchesSomePattern(name) ==
    \E i \in 1..Len(config.branches) : WildcardMatch(config.branches[i], name)

\* C9: the evaluated branches are exactly the listed branches that match a
\* pattern with wildcards that do not cross '/'; no other branch is fetched;
\* an empty pattern list gives zero branches and a successful, empty result.
C9_EvaluatedBranches ==
    /\ Running =>
           /\ targets = SelectSeq(branches, MatchesSomePattern)
           /\ \A k \in 1..Len(reports) : reports[k].target = targets[k]
    /\ (pc = "check_done" /\ result[1].ok) =>
           {result[1].value[k].target : k \in 1..Len(result[1].value)}
               = {name \in Range(branches) : MatchesSomePattern(name)}
    /\ \A i \in 1..Len(calls) :
           calls[i].op = "get_branch_protection" =>
               calls[i].branch \in Range(branches) /\ MatchesSomePattern(calls[i].branch)
    /\ (config.branches = <<>> /\ calls # <<>> /\ calls[1].status = "ok") =>
           /\ Len(calls) = 1
           /\ targets = <<>>
           /\ pc = "check_done" => result = Some(Ok(<<>>))

\* C9 witness: the pattern * selects main and not r/x, which is never fetched
C9_Witness ==
    /\ pc = "check_done"
    /\ result[1].ok
    /\ config.branches = << <<"*">> >>
    /\ branches = <<Release, Main>>
    /\ Len(calls) = 2
    /\ calls[2].branch = Main
    /\ Len(result[1].value) = 1

\* C9 witness of the empty pattern list
C9_EmptyWitness ==
    /\ pc = "check_done"
    /\ config.branches = <<>>
    /\ branches # <<>>
    /\ result = Some(Ok(<<>>))

(***************************************************************************)
(* Properties of merge_profile (checked under SpecMerge).                  *)
(***************************************************************************)
\* C10: the merged required files are the base's followed by the profile's,
\* in order and without deduplication, so the lengths add up.
C10_MergeConcatenates ==
    pc = "merge_done" =>
        LET rules == merged[1].required_files
            n == Len(base.required_files)
        IN  /\ Len(rules) = n + Len(profile.required_files)
            /\ \A i \in 1..n : rules[i] = base.required_files[i]
            /\ \A j \in 1..Len(profile.required_files) :
                   rules[n + j] = profile.required_files[j]

\* C10 witness: the profile repeats a rule of the base and the rule is kept twice
C10_Witness ==
    /\ pc = "merge_done"
    /\ Len(base.required_files) = 2
    /\ Len(profile.required_files) = 1
    /\ profile.required_files[1] = base.required_files[1]
    /\ Len(merged[1].required_files) = 3
    /\ merged[1].required_files[3] = merged[1].required_files[1]

\* C11: branch_protection and metadata come whole from the profile when the
\* profile has them and from the base otherwise; version, profile and
\* language are always the base's.
C11_MergeOverrides ==
    pc = "merge_done" =>
        LET m == merged[1]
        IN  /\ m.branch_protection =
                   (IF is_some(profile.branch_protection)
                    THEN profile.branch_protection ELSE base.branch_protection)
            /\ m.metadata =
                   (IF is_some(profile.metadata) THEN profile.metadata ELSE base.metadata)
            /\ m.version = base.version
            /\ m.profile = base.profile
            /\ m.language = base.language

\* C11 witness: both contracts carry a different branch_protection, metadata
\* and header; the merged contract has the profile's protection and metadata
\* under the base's header
C11_Witness ==
    /\ pc = "merge_done"
    /\ is_some(base.branch_protection)
    /\ is_some(profile.branch_protection)
    /\ base.branch_protection[1].branches # profile.branch_protection[1].branches
    /\ is_some(base.metadata) /\ is_some(profile.metadata)
    /\ base.metadata # profile.metadata
    /\ base.version # profile.version
    /\ merged[1].branch_protection = profile.branch_protection
    /\ merged[1].metadata = profile.metadata
    /\ merged[1].version = base.version

(***************************************************************************)
(* More properties of the evaluator (checked under SpecEval).              *)
(***************************************************************************)
\* a verdict on a plain boolean: passes iff equal, and warns when it fails
BooleanVerdictOk(path, e, a) ==
    /\ Len(DetailsAt(path)) = 1
    /\ LET d == DetailsAt(path)[1]
       IN  /\ d.passed <=> (e = a)
           /\ ~d.passed => d.severity = SeverityWarning

FailedPaths == {details[i].path : i \in {j \in 1..Len(details) : ~details[j].passed}}

PlainBooleanPaths ==
    {"required_pull_request_reviews.dismiss_stale_reviews",
     "required_pull_request_reviews.require_code_owner_reviews",
     "required_pull_request_reviews.require_last_push_approval",
     "required_status_checks.strict",
     "enforce_admins", "required_linear_history", "allow_force_pushes",
     "allow_deletions", "required_conversation_resolution", "required_signatures"}

\* C20: the three review flags, strict and the six top-level booleans pass
\* iff expected = actual and fail as warnings in both directions; when only
\* such verdicts fail the error counter stays at zero.
C20_PlainBooleansWarn ==
    pc = "eval_done" =>
        LET er == expected.required_pull_request_reviews
            ar == actual.required_pull_request_reviews
            es == expected.required_status_checks
            as == actual.required_status_checks
        IN  /\ er.enabled =>
                   /\ BooleanVerdictOk("required_pull_request_reviews.dismiss_stale_reviews",
                                       er.dismiss_stale_reviews, ar.dismiss_stale_reviews)
                   /\ BooleanVerdictOk(
                          "required_pull_request_reviews.require_code_owner_reviews",
                          er.require_code_owner_reviews, ar.require_code_owner_reviews)
                   /\ BooleanVerdictOk(
                          "required_pull_request_reviews.require_last_push_approval",
                          er.require_last_push_approval, ar.require_last_push_approval)
            /\ es.enabled =>
                   BooleanVerdictOk("required_status_checks.strict", es.strict, as.strict)
            /\ BooleanVerdictOk("enforce_admins",
                                expected.enforce_admins, actual.enforce_admins)
            /\ BooleanVerdictOk("required_linear_history",
                                expected.required_linear_history,
                                actual.required_linear_history)
            /\ BooleanVerdictOk("allow_force_pushes",
                                expected.allow_force_pushes, actual.allow_force_pushes)
            /\ BooleanVerdictOk("allow_deletions",
                                expected.allow_deletions, actual.allow_deletions)
            /\ BooleanVerdictOk("required_conversation_resolution",
                                expected.required_conversation_resolution,
                                actual.required_conversation_resolution)
            /\ BooleanVerdictOk("required_signatures",
                                expected.required_signatures, actual.required_signatures)
            /\ FailedPaths \subseteq PlainBooleanPaths =>
                   summarize_branch_protection(
                       <<BranchProtectionReport("main", details)>>).error = 0

\* C20 witness: a top-level boolean differs in each direction and a review
\* flag differs; the verdicts fail as warnings and no error is counted
C20_Witness ==
    /\ pc = "eval_done"
    /\ expected.enforce_admins /\ ~actual.enforce_admins
    /\ ~expected.allow_deletions /\ actual.allow_deletions
    /\ ~DetailsAt("enforce_admins")[1].passed
    /\ DetailsAt("enforce_admins")[1].severity = SeverityWarning
    /\ DetailsAt("allow_deletions")[1].severity = SeverityWarning
    /\ summarize_branch_protection(<<BranchProtectionReport("main", details)>>)
           = [error |-> 0, warning |-> 2, info |-> 0]

(***************************************************************************)
(* Properties of check_required_files (checked under SpecFiles).           *)
(***************************************************************************)
FilesReturned == pc = "files_done" /\ files_result[1].ok
ReturnedReport == files_result[1].value

MissingOf(checks, severity) ==
    {i \in 1..Len(checks) : ~checks[i].exists /\ checks[i].severity = severity}

\* C12: each counter of the returned summary is the number of rules of that
\* severity whose check has exists = false; a rule that exists adds nothing
\* and a missing rule adds one to its own severity only.
C12_SummaryCountsMissing ==
    /\ pc = "files_loop" =>
           \A severity \in Severity :
               report[1].summary[severity]
                   = Cardinality(MissingOf(report[1].checks, severity))
    /\ FilesReturned =>
           /\ Len(ReturnedReport.checks) = Len(required_files)
           /\ \A i \in 1..Len(required_files) :
                  ReturnedReport.checks[i].severity = required_files[i].severity
           /\ \A severity \in Severity :
                  ReturnedReport.summary[severity]
                      = Cardinality(MissingOf(ReturnedReport.checks, severity))

\* C12 witness: one rule is present, one warning rule is missing
C12_Witness ==
    /\ FilesReturned
    /\ Len(ReturnedReport.checks) = 2
    /\ ReturnedReport.checks[1].exists
    /\ ~ReturnedReport.checks[2].exists
    /\ ReturnedReport.checks[2].severity = SeverityWarning
    /\ ReturnedReport.summary = [error |-> 0, warning |-> 1, info |-> 0]

\* C15: a path rule passes iff one of its candidates, the path followed by
\* the alternatives, matches; the check reports the primary path, and a rule
\* met only by an alternative adds nothing to the summary.
C15_AlternativesSatisfy ==
    /\ FilesReturned =>
           \A i \in 1..Len(required_files) :
               is_some(required_files[i].path) =>
                   LET rule == required_files[i]
                       list == <<rule.path[1]>> \o rule.alternatives
                   IN  /\ ReturnedReport.checks[i].path = rule.path[1]
                       /\ ReturnedReport.checks[i].exists
                              <=> \E k \in 1..Len(list) :
                                      path_exists(list[k], root, files,
                                                  files_lowercase, rule.case_insensitive)
    /\ (FilesReturned /\ Len(required_files) = 1
            /\ required_files[1].path = Some(License)
            /\ LicenseMd \in Range(root)) =>
           /\ ReturnedReport.checks[1].exists
           /\ ReturnedReport.summary = SummaryDefault

\* C15 witness: LICENSE is absent and LICENSE.md present; the check passes
\* under the path LICENSE and nothing is counted
C15_Witness ==
    /\ FilesReturned
    /\ required_files = <<RequiredFile(Some(License), None, <<LicenseMd>>, SeverityError)>>
    /\ License \notin Range(root)
    /\ LicenseMd \in Range(root)
    /\ ReturnedReport.checks[1].path = License
    /\ ReturnedReport.checks[1].exists
    /\ ReturnedReport.summary.error = 0

NoSelector(rule) == is_none(rule.path) /\ is_none(rule.pattern)

\* C16: a rule with neither a path nor a pattern never yields a check; once
\* the files are listed, a contract holding such a rule makes
\* check_required_files return an invalid-configuration error and no report.
C16_NoSelectorIsInvalid ==
    /\ is_some(report) =>
           \A i \in 1..Len(report[1].checks) : ~NoSelector(required_files[i])
    /\ (pc = "files_done" /\ is_some(report)) =>
           ((\E i \in 1..Len(required_files) : NoSelector(required_files[i]))
                => files_result = Some(Err(InvalidConfig)))

\* C16 witness: the second rule has neither; the first was evaluated and the
\* call returned the error
C16_Witness ==
    /\ pc = "files_done"
    /\ Len(required_files) = 2
    /\ NoSelector(required_files[2])
    /\ is_some(report)
    /\ Len(report[1].checks) = 1
    /\ files_result = Some(Err(InvalidConfig))

\* the rule's primary path is a glob that does not parse, or its pattern is a
\* regular expression that does not parse
Unparseable(rule) ==
    IF is_some(rule.path)
    THEN looks_like_glob(rule.path[1]) /\ ~glob_build(rule.path[1]).ok
    ELSE is_some(rule.pattern) /\ ~regex_build(rule.pattern[1], FALSE).ok

\* C17: an unparseable glob or regular expression of a required-file rule is
\* a fatal invalid-configuration error: no check is produced for such a rule
\* and the call returns the error.
C17_UnparseableIsFatal ==
    /\ is_some(report) =>
           \A i \in 1..Len(report[1].checks) : ~Unparseable(required_files[i])
    /\ (pc = "files_done" /\ is_some(report)
            /\ \E i \in 1..Len(required_files) : Unparseable(required_files[i]))
           => files_result = Some(Err(InvalidConfig))

(***************************************************************************)
(* Properties of the check and diff commands (checked under SpecRun).      *)
(***************************************************************************)
RunReturned == pc = "run_done" /\ run_result[1].ok
BranchReports == IF is_some(result) /\ result[1].ok THEN result[1].value ELSE <<>>
FileChecks ==
    IF is_some(files_result) /\ files_result[1].ok
    THEN files_result[1].value.checks ELSE <<>>

\* the failed verdicts of one severity, over the required files and over
\* every branch report
FailedVerdicts(severity) ==
    Cardinality(MissingOf(FileChecks, severity))
        + Cardinality({<<r, d>> \in (1..Len(BranchReports)) \X (1..30) :
                           /\ d <= Len(BranchReports[r].details)
                           /\ ~BranchReports[r].details[d].passed
                           /\ BranchReports[r].details[d].severity = severity})

SummaryCountsAll ==
    \A severity \in Severity : run_summary[1][severity] = FailedVerdicts(severity)

\* C13: the Summary a run produces counts every failed verdict by severity,
\* over the required files and over every branch report.
C13_SummaryCountsEveryVerdict ==
    (RunReturned /\ is_some(run_summary)) => SummaryCountsAll

\* the part of C13 that holds: the summary of the check command
CheckSummaryCountsEveryVerdict ==
    (RunReturned /\ is_some(run_summary) /\ args.command = "check") => SummaryCountsAll

RECURSIVE FailedDetails(_, _)
\* the failed verdicts of the reports as <<target, detail>>, in report order
FailedDetails(report_list, r) ==
    IF r > Len(report_list) THEN <<>>
    ELSE LET list == SelectSeq(report_list[r].details, LAMBDA d : ~d.passed)
         IN  [i \in 1..Len(list) |-> <<report_list[r].target, list[i]>>]
                 \o FailedDetails(report_list, r + 1)

\* C14: the diff holds one entry per failing verdict and none for a passing
\* one, in verdict order: a missing required file gives rule required_files,
\* type missing_file, the rule's severity and path and nothing else; a failed
\* branch verdict gives rule branch_protection, the branch as target, the
\* expected and actual values, and type array_diff when a missing or extra
\* list is present, value_mismatch otherwise.
C14_DiffEntries ==
    (RunReturned /\ args.command = "diff" /\ run_result[1].value \in {0, 1}) =>
        LET absent == SelectSeq(FileChecks, LAMBDA c : ~c.exists)
            failed == FailedDetails(BranchReports, 1)
        IN  /\ Len(diffs) = Len(absent) + Len(failed)
            /\ \A i \in 1..Len(absent) :
                   diffs[i] = [rule |-> "required_files", path |-> absent[i].path,
                               diff_type |-> "missing_file",
                               severity |-> Some(absent[i].severity),
                               target |-> None, expected |-> None, actual |-> None,
                               missing |-> None, extra |-> None]
            /\ \A j \in 1..Len(failed) :
                   LET entry == diffs[Len(absent) + j]
                       target == failed[j][1]
                       detail == failed[j][2]
                   IN  /\ entry.rule = "branch_protection"
                       /\ entry.path = detail.path
                       /\ entry.target = Some(target)
                       /\ entry.expected = Some(detail.expected)
                       /\ entry.actual = Some(detail.actual)
                       /\ entry.missing = detail.missing
                       /\ entry.extra = detail.extra
                       /\ entry.diff_type =
                              (IF detail.missing # None \/ detail.extra # None
                               THEN "array_diff" ELSE "value_mismatch")

\* C14 witness: a diff of both rules with a missing file, a failed status
\* check list and a failed boolean
C14_Witness ==
    /\ RunReturned
    /\ args.command = "diff"
    /\ \E i \in 1..Len(diffs) : diffs[i].diff_type = "missing_file"
    /\ \E i \in 1..Len(diffs) : diffs[i].diff_type = "array_diff"
    /\ \E i \in 1..Len(diffs) : diffs[i].diff_type = "value_mismatch"
    /\ \E r \in 1..Len(BranchReports) :
           \E d \in 1..Len(BranchReports[r].details) : BranchReports[r].details[d].passed

ProfileMissing == is_some(contract_file.profile) /\ is_none(profile_file)

\* C18: when the contract declares a profile whose file does not exist, the
\* load fails with profile-not-found before any evaluation step: the files
\* are never listed, the provider is never called, and the run ends with
\* that error (or earlier, on its arguments).
C18_ProfileNotFoundFirst ==
    /\ ProfileMissing =>
           /\ pc \in {"run_start", "run_done"}
           /\ calls = <<>> /\ is_none(result)
           /\ is_none(report) /\ is_none(files_result)
           /\ is_none(run_summary) /\ diffs = <<>>
           /\ (pc = "run_done" /\ is_some(loaded)) =>
                  run_result = Some(Err(ProfileNotFound))
    /\ (is_some(run_result) /\ run_result[1] = Err(ProfileNotFound)) =>
           ProfileMissing /\ calls = <<>> /\ is_none(report)

\* C18 witness: a check of both rules on a contract with branch protection
\* and required files ends with profile-not-found and nothing evaluated
C18_Witness ==
    /\ pc = "run_done"
    /\ run_result = Some(Err(ProfileNotFound))
    /\ args.command = "check"
    /\ is_none(args.rules)
    /\ is_some(contract_file.branch_protection)
    /\ contract_file.required_files # <<>>
    /\ calls = <<>>
    /\ files = <<>>

Strict == resolve_strict(args.strict, cli_config.strict, env.CONTRACT_STRICT)

\* C19: a check that reaches its summary exits with 1 iff the summary has an
\* error, or strict mode is on and it has a warning, and with 0 otherwise;
\* info never fails a run and a warning does not without strict mode.
C19_CheckExit ==
    (RunReturned /\ args.command = "check" /\ is_some(run_summary)) =>
        LET summary == run_summary[1]
            code == run_result[1].value
        IN  /\ code \in {0, 1}
            /\ code = 1 <=> (summary.error > 0 \/ (Strict /\ summary.warning > 0))
            /\ (summary.error = 0 /\ summary.warning = 0) => code = 0
            /\ (summary.error = 0 /\ ~Strict) => code = 0

\* C19 witness: a warning and no error, without strict mode: exit 0
C19_Witness ==
    /\ RunReturned
    /\ args.command = "check"
    /\ is_some(run_summary)
    /\ run_summary[1].error = 0
    /\ run_summary[1].warning > 0
    /\ ~Strict
    /\ run_result[1].value = 0

\* a run of check: a warning and no error under strict mode exits with 1
C19_StrictWitness ==
    /\ RunReturned
    /\ args.command = "check"
    /\ is_some(run_summary)
    /\ run_summary[1].error = 0
    /\ run_summary[1].warning > 0
    /\ Strict
    /\ run_result[1].value = 1

(***************************************************************************)
(* More properties of the set difference (checked under SpecChecks).       *)
(***************************************************************************)
\* the permutations of a sequence
Reorderings(s) ==
    {[i \in 1..Len(s) |-> s[f[i]]] :
        f \in {g \in [1..Len(s) -> 1..Len(s)] :
                  \A i, j \in 1..Len(s) : i # j => g[i] # g[j]}}

\* two sequences hold the same elements the same number of times
SameMultiset(s, t) ==
    /\ Len(s) = Len(t)
    /\ \A x \in Range(s) \cup Range(t) :
           Cardinality({i \in 1..Len(s) : s[i] = x})
               = Cardinality({i \in 1..Len(t) : t[i] = x})

\* C21: for every permutation of the expected and of the observed checks the
\* missing and extra lists hold the same elements, so the passed flag and
\* the severity of the checks verdict do not change.
C21_OrderIndependent ==
    pc = "diff_done" =>
        \A pe \in Reorderings(expected_checks), pa \in Reorderings(actual_checks) :
            LET m == missing_status_checks(pe, pa)
                x == extra_status_checks(pe, pa)
            IN  /\ SameMultiset(m, missing)
                /\ SameMultiset(x, extra)
                /\ checks_passed(m, x) = checks_passed(missing, extra)
                /\ checks_severity(m) = checks_severity(missing)

\* C21 witness: two different expected and two different observed checks, one
\* missing and one extra
C21_Witness ==
    /\ pc = "diff_done"
    /\ Len(expected_checks) = 2 /\ expected_checks[1] # expected_checks[2]
    /\ Len(actual_checks) = 2 /\ actual_checks[1].context # actual_checks[2].context
    /\ Len(missing) = 1
    /\ Len(extra) = 1

(***************************************************************************)
(* More properties of check_required_files (checked under SpecFiles).      *)
(***************************************************************************)
\* the rule is a single glob candidate that parses
GlobRule(rule) ==
    /\ is_some(rule.path)
    /\ rule.alternatives = <<>>
    /\ looks_like_glob(rule.path[1])
    /\ glob_build(rule.path[1]).ok

\* some listed file matches the glob with '*' and '?' kept inside a component
MatchesInsideComponents(rule) ==
    \E i \in 1..Len(files) :
        glob_is_match(glob_build(glob_fold(rule.path[1], rule.case_insensitive)).value,
                      glob_fold(files[i], rule.case_insensitive), TRUE)

\* C22: a candidate holding '*', '?' or '[' is matched as a glob whose '*'
\* and '?' do not cross a path separator: it passes iff some listed file
\* matches under that reading, so "*.rs" is not met by "src/lib.rs".
C22_GlobKeepsSeparators ==
    FilesReturned =>
        \A i \in 1..Len(required_files) :
            GlobRule(required_files[i]) =>
                (ReturnedReport.checks[i].exists
                     <=> MatchesInsideComponents(required_files[i]))

\* the tree without the files under .git and target
VisibleTree == list_files(root)

\* C23: no rule, by literal path, case-insensitive path, glob or regex, is
\* made to pass by a file under .git or target: a check that passes also
\* passes on the tree without those files.
C23_IgnoredNeverSatisfy ==
    FilesReturned =>
        \A i \in 1..Len(required_files) :
            ReturnedReport.checks[i].exists =>
                evaluate_required_file(required_files[i], VisibleTree, files,
                                       files_lowercase).value.exists

(***************************************************************************)
(* Properties of convert_protection_rules (checked under SpecConvert).     *)
(***************************************************************************)
TopLevelBooleans ==
    {"enforce_admins", "required_linear_history", "allow_force_pushes",
     "allow_deletions", "required_conversation_resolution", "required_signatures"}

\* C24: an absent review group converts to enabled false, count 0 and flags
\* false; an absent status group to enabled false, strict false and no
\* checks; an absent top-level group to false; a present group converts to
\* enabled true with the remote values (a top-level group to its remote
\* value), and the checks are the remote contexts with no app_id followed by
\* the remote checks with their app_id, duplicates kept.
C24_ConvertSnapshot ==
    pc = "convert_done" =>
        LET rules == converted[1]
            reviews == snapshot.required_pull_request_reviews
            status == snapshot.required_status_checks
            out == rules.required_status_checks.checks
        IN  /\ is_none(reviews) =>
                   rules.required_pull_request_reviews
                       = [enabled |-> FALSE, required_approving_review_count |-> 0,
                          dismiss_stale_reviews |-> FALSE,
                          require_code_owner_reviews |-> FALSE,
                          require_last_push_approval |-> FALSE]
            /\ is_some(reviews) =>
                   /\ rules.required_pull_request_reviews.enabled
                   /\ \A f \in DOMAIN reviews[1] :
                          rules.required_pull_request_reviews[f] = reviews[1][f]
            /\ is_none(status) =>
                   rules.required_status_checks
                       = [enabled |-> FALSE, strict |-> FALSE, checks |-> <<>>]
            /\ is_some(status) =>
                   LET n == Len(status[1].contexts)
                   IN  /\ rules.required_status_checks.enabled
                       /\ rules.required_status_checks.strict = status[1].strict
                       /\ Len(out) = n + Len(status[1].checks)
                       /\ \A i \in 1..n :
                              out[i] = [context |-> status[1].contexts[i],
                                        app_id |-> None]
                       /\ \A j \in 1..Len(status[1].checks) :
                              out[n + j] = [context |-> status[1].checks[j].context,
                                            app_id |-> status[1].checks[j].app_id]
            /\ \A f \in TopLevelBooleans :
                   rules[f] = (IF is_none(snapshot[f]) THEN FALSE
                               ELSE snapshot[f][1].enabled)

\* C24 witness: a present review group, a status group whose context ci is
\* also among its checks, an absent and a present top-level group
C24_Witness ==
    /\ pc = "convert_done"
    /\ is_some(snapshot.required_pull_request_reviews)
    /\ snapshot.required_pull_request_reviews[1].required_approving_review_count = 2
    /\ is_some(snapshot.required_status_checks)
    /\ snapshot.required_status_checks[1].contexts = <<"ci">>
    /\ snapshot.required_status_checks[1].checks
           = <<GithubStatusCheck("ci", None), GithubStatusCheck("lint", Some(1))>>
    /\ Len(converted[1].required_status_checks.checks) = 3
    /\ is_none(snapshot.required_linear_history)
    /\ snapshot.enforce_admins = GithubEnabled(TRUE)
    /\ converted[1].enforce_admins
    /\ ~converted[1].required_linear_history

\* a run of the conversion on a protection with every group absent
C24_AbsentWitness ==
    /\ pc = "convert_done"
    /\ is_none(snapshot.required_pull_request_reviews)
    /\ is_none(snapshot.required_status_checks)
    /\ \A f \in TopLevelBooleans : is_none(snapshot[f])
    /\ ~converted[1].required_pull_request_reviews.enabled
    /\ ~converted[1].required_status_checks.enabled

(***************************************************************************)
(* More properties of the commands (checked under SpecRun).                *)
(***************************************************************************)
\* the rules the run is configured with: the base's, then the profile's
ConfiguredRules ==
    contract_file.required_files
        \o (IF is_some(contract_file.profile) /\ is_some(profile_file)
            THEN profile_file[1].required_files ELSE <<>>)

RuleLabel(rule) == IF is_some(rule.path) THEN rule.path[1] ELSE rule.pattern[1]

\* C25: a successful check_required_files holds one check per configured
\* rule, in rule order, so a rule repeated by the profile merge is evaluated
\* and counted twice; and a successful check_branch_protection holds one
\* report per matched branch, each with the full verdict sequence or with
\* the single synthetic verdict, never with none.
C25_EvaluationIsTotal ==
    /\ (is_some(files_result) /\ files_result[1].ok) =>
           LET checks == files_result[1].value.checks
           IN  /\ Len(checks) = Len(ConfiguredRules)
               /\ \A i \in 1..Len(checks) :
                      /\ checks[i].path = RuleLabel(ConfiguredRules[i])
                      /\ checks[i].severity = ConfiguredRules[i].severity
               /\ \A severity \in Severity :
                      files_result[1].value.summary[severity]
                          = Cardinality(MissingOf(checks, severity))
    /\ (is_some(result) /\ result[1].ok) =>
           LET list == result[1].value
           IN  /\ Len(list) = Len(targets)
               /\ \A k \in 1..Len(list) :
                      /\ list[k].target = targets[k]
                      /\ list[k].details # <<>>
                      /\ \/ list[k].details = <<SyntheticVerdict>>
                         \/ Paths(list[k].details) = PrescribedPaths(config.rules)

\* C25 witness: the profile repeats the base's LICENSE rule, the file is
\* absent and counted twice, and the matched branch has a full report
C25_Witness ==
    /\ pc = "run_done"
    /\ args.command = "check"
    /\ is_some(files_result) /\ files_result[1].ok
    /\ Len(files_result[1].value.checks) = 2
    /\ ConfiguredRules[1] = ConfiguredRules[2]
    /\ files_result[1].value.summary.error = 2
    /\ is_some(result) /\ result[1].ok
    /\ Len(result[1].value) = 1
    /\ Len(result[1].value[1].details) > 1

(***************************************************************************)
(* Independence of the branches in check_branch_protection.                *)
(***************************************************************************)
ReportFor(rules, target, protection) ==
    BranchProtectionReport(target,
                           IF is_some(protection)
                           THEN evaluate_branch_protection(rules, protection[1])
                           ELSE <<SyntheticVerdict>>)

SumOver(report_list, severity) ==
    LET RECURSIVE sum(_)
        sum(k) == IF k = 0 THEN 0
                  ELSE sum(k - 1) + Summary(<<report_list[k]>>)[severity]
    IN  sum(Len(report_list))

\* C26: in a run that has not failed, the report of a branch is a function of the
\* expected rules and of the protection fetched for that branch alone: two
\* branches with the same protection get the same verdicts wherever they stand
\* in the listing, and the summary is the sum of the branches' own counters.
C26_BranchesIndependent ==
    Running =>
        /\ Len(protections) = Len(reports)
        /\ \A k \in 1..Len(reports) :
               reports[k] = ReportFor(config.rules, targets[k], protections[k])
        /\ \A j, k \in 1..Len(reports) :
               protections[j] = protections[k] =>
                   /\ reports[j].details = reports[k].details
                   /\ reports[j].checks = reports[k].checks
        /\ \A severity \in Severity :
               Summary(reports)[severity] = SumOver(reports, severity)

\* two branches with different protections and different verdicts, the second
\* failing where the first does not
C26_Witness ==
    /\ pc = "check_done" /\ result[1].ok
    /\ Len(reports) = 2
    /\ protections[1] # protections[2]
    /\ reports[1].checks = <<>>
    /\ reports[2].checks # <<>>
    /\ Summary(reports) = Summary(<<reports[2]>>)

(***************************************************************************)
(* The diff entries against the summaries.                                 *)
(***************************************************************************)
Total(summary) == summary.error + summary.warning + summary.info

EntriesWith(entries, severity) ==
    Len(SelectSeq(entries, LAMBDA entry : entry.severity = Some(severity)))

\* C27: on the reports and on the checks of a run, diff_branch_protection
\* returns as many entries as summarize_branch_protection counts over its three
\* counters, and diff_required_files returns as many entries as its summary
\* counts, each counter being the number of entries of that severity.
C27_DiffAgreesWithSummary ==
    /\ (is_some(result) /\ result[1].ok) =>
           Len(diff_branch_protection(result[1].value))
               = Total(summarize_branch_protection(result[1].value))
    /\ (is_some(files_result) /\ files_result[1].ok) =>
           LET diff_report == diff_required_files(files_result[1].value.checks)
           IN  /\ is_some(diff_report.summary)
               /\ Len(diff_report.diffs) = Total(diff_report.summary[1])
               /\ \A severity \in Severity :
                      diff_report.summary[1][severity]
                          = EntriesWith(diff_report.diffs, severity)
               /\ (RunReturned /\ args.command = "diff") =>
                      /\ run_summary = diff_report.summary
                      /\ Len(diffs) = Len(diff_branch_protection(BranchReports))
                                          + Len(diff_report.diffs)

\* a diff over two rules: failed verdicts on a branch, a missing file and a
\* file that is present
C27_Witness ==
    /\ RunReturned /\ args.command = "diff"
    /\ is_some(result) /\ result[1].ok
    /\ is_some(files_result) /\ files_result[1].ok
    /\ Len(diff_branch_protection(result[1].value)) >= 2
    /\ \E i, j \in 1..Len(files_result[1].value.checks) :
           /\ files_result[1].value.checks[i].exists
           /\ ~files_result[1].value.checks[j].exists
    /\ Total(run_summary[1]) >= 1
    /\ Len(diffs) > Total(run_summary[1])

(***************************************************************************)
(* The checks of a report against its details.                             *)
(***************************************************************************)
FailedIndexes(list) == {i \in 1..Len(list) : ~list[i].passed}

\* the position among the failed verdicts of the failed verdict at index i
Rank(list, i) == Cardinality({j \in FailedIndexes(list) : j <= i})

\* C28: in every report check_branch_protection has built, checks holds one
\* entry per failed verdict of details and no other, in the order of details,
\* with the verdict's path, expected, actual, severity and message and no other
\* field; a verdict has an empty message iff it passed, so no entry of checks
\* has an empty message.
C28_ChecksAreFailedDetails ==
    Running =>
        \A k \in 1..Len(reports) :
            LET list == reports[k].details
                checks == reports[k].checks
            IN  /\ Len(checks) = Cardinality(FailedIndexes(list))
                /\ \A i \in FailedIndexes(list) :
                       /\ DOMAIN checks[Rank(list, i)]
                              = {"path", "expected", "actual", "severity", "message"}
                       /\ \A field \in DOMAIN checks[Rank(list, i)] :
                              checks[Rank(list, i)][field] = list[i][field]
                /\ \A i \in 1..Len(list) : (list[i].message = "") <=> list[i].passed
                /\ \A n \in 1..Len(checks) : checks[n].message # ""

\* a report with a passed verdict between two failed ones and one with the
\* synthetic verdict alone
C28_Witness ==
    /\ pc = "check_done" /\ result[1].ok
    /\ \E k \in 1..Len(reports) :
           LET list == reports[k].details
           IN  /\ Len(reports[k].checks) >= 2
               /\ \E h, i, j \in 1..Len(list) :
                      /\ h < i /\ i < j
                      /\ ~list[h].passed /\ list[i].passed /\ ~list[j].passed
    /\ \E k \in 1..Len(reports) :
           /\ reports[k].details = <<SyntheticVerdict>>
           /\ Len(reports[k].checks) = 1

(***************************************************************************)
(* The order of the fetches of check_branch_protection.                    *)
(***************************************************************************)
ListingPosition(branch) == CHOOSE i \in 1..Len(branches) : branches[i] = branch

MatchingPatterns(branch) ==
    {i \in 1..Len(config.branches) : WildcardMatch(config.branches[i], branch)}

InListingOrder ==
    /\ \A k \in 1..Len(targets) : \E i \in 1..Len(branches) : branches[i] = targets[k]
    /\ \A j, k \in 1..Len(targets) :
           j < k => ListingPosition(targets[j]) < ListingPosition(targets[k])

FetchedInOrder ==
    /\ Len(calls) = Len(reports) + 1
    /\ calls[1].op = "list_branches"
    /\ \A k \in 1..Len(reports) :
           /\ calls[k + 1].op = "get_branch_protection"
           /\ calls[k + 1].branch = targets[k]
           /\ reports[k].target = targets[k]
    /\ pc = "check_done" => Len(reports) = Len(targets)

\* a fetch happens when every earlier target has its report, it asks for the next
\* target, and its report is built before anything else happens
FetchAfterReport ==
    (pc = "check_fetch" /\ calls' # calls) =>
        /\ Len(reports) = Len(calls) - 1
        /\ calls' = Append(calls, Call("get_branch_protection",
                                       targets[Len(reports) + 1],
                                       calls'[Len(calls')].status))
        /\ \/ /\ Len(reports') = Len(reports) + 1
              /\ reports'[Len(reports')].target = targets[Len(reports) + 1]
              /\ \A k \in 1..Len(reports) : reports'[k] = reports[k]
           \/ /\ pc' = "check_done"
              /\ ~result'[1].ok

\* C29: the matched branches are fetched and reported in the order of the
\* listing, whatever the order of the patterns, one after another; a branch that
\* matches several patterns is fetched once and has one report; the protection
\* of a branch is fetched only once the report of the branch before it is built.
C29_FetchedInListingOrder ==
    /\ [](Running => (InListingOrder /\ FetchedInOrder))
    /\ [][FetchAfterReport]_vars

\* the patterns name the second listed branch first, and that branch matches
\* both patterns
C29_Witness ==
    /\ pc = "check_done" /\ result[1].ok
    /\ Len(config.branches) = 2
    /\ Len(reports) = 2
    /\ MatchingPatterns(targets[1]) = {2}
    /\ MatchingPatterns(targets[2]) = {1, 2}
    /\ Len(calls) = 3

(***************************************************************************)
(* init_contract_files and the files that exist.                           *)
(***************************************************************************)
ProfilePath == profile_path_for(options.output_path, options.profile[1])

\* no step changes a file that exists
ExistingFilesKept ==
    \A path \in DOMAIN disk : is_some(disk[path]) => disk'[path] = disk[path]

\* the call stops at the write of path, which exists, and writes nothing
FailsAlreadyExists(path) ==
    /\ disk' = disk
    /\ created' = created
    /\ init_result' = Some(Err(AlreadyExists(path)))
    /\ pc' = "init_done"

OutcomeOnSuccess ==
    (pc = "init_done" /\ init_result[1].ok) =>
        /\ init_result[1].value.created = created
        /\ created = <<options.output_path>>
                         \o (IF is_some(options.profile) THEN <<ProfilePath>> ELSE <<>>)
        /\ \A i \in 1..Len(created) : is_some(disk[created[i]])

\* C30: without force no step of init_contract_files changes a file that
\* exists; when the output path exists the first step fails with AlreadyExists
\* and leaves the disk as it was, the profile file neither created nor changed;
\* when the output was written and the profile file exists, the profile step
\* fails with AlreadyExists and leaves that file as it was; a successful call
\* returns the output path, followed by the profile path iff a profile was asked
\* for.
C30_NeverOverwritesWithoutForce ==
    /\ [][~options.force =>
              /\ ExistingFilesKept
              /\ (pc = "init_start" /\ is_some(disk[options.output_path]))
                     => FailsAlreadyExists(options.output_path)
              /\ (pc = "init_profile" /\ is_some(options.profile)
                      /\ is_some(disk[ProfilePath]))
                     => FailsAlreadyExists(ProfilePath)]_vars
    /\ []OutcomeOnSuccess

\* only the profile file was there: the output file is written, the profile file
\* is the old one and the call has failed on it
C30_Witness ==
    /\ pc = "init_done"
    /\ ~options.force
    /\ options.profile = Some("rust")
    /\ options.output_path = <<"sub", "contract.yml">>
    /\ init_result = Some(Err(AlreadyExists(<<"sub", "contract.rust.yml">>)))
    /\ disk[<<"sub", "contract.rust.yml">>] = Some(OldContent)
    /\ created = <<options.output_path>>
    /\ disk[options.output_path] # Some(OldContent)

\* a successful forced call with a profile: both files hold their templates
C30_SuccessWitness ==
    /\ pc = "init_done"
    /\ init_result[1].ok
    /\ options.force
    /\ init_result[1].value.created = << <<"contract.yml">>, <<"contract.go.yml">> >>
    /\ disk[<<"contract.yml">>] = Some(ContractTemplate(Some("go"),
                                                        default_required_files))
    /\ disk[<<"contract.go.yml">>] = Some(ProfileTemplate("go", <<>>))


=============================================================================
